---- MODULE Spec2Model ----
(***************************************************************************)
(* Model of the article generator: the Markdown section tools              *)
(* (utils/section_tools.py) and the generation pipeline                    *)
(* (utils/openai_client.py).                                               *)
(*                                                                         *)
(* A text is a sequence of tokens.  "#", " " and "\n" are the characters   *)
(* the heading regexes look at; every other token is an atom: a maximal    *)
(* piece of text without line-initial "#" that the code only ever copies   *)
(* or compares as a whole (a title, a paragraph, a canned body).  Offsets  *)
(* are 0-based as in Python: the character at offset p is s[p+1].          *)
(***************************************************************************)
EXTENDS Integers, Sequences, FiniteSets, TLC

VARIABLES
    pc,             \* position inside generate_article / the section tool run
    outline_mode,   \* generate_article: outline_mode
    outline_md,     \* generate_article: outline_md (<<>> when not locked)
    length_preset,  \* generate_article: length_preset
    first_pass,     \* generate_article: first_pass (draft of the locked path)
    article,        \* generate_article: article
    prev_article,   \* history: article before the latest expansion step
    calls,          \* history: the chat_complete calls made, in order
    responses,      \* history: what each of those calls returned
    raised,         \* history: whether the capability raised in each call
    checked,        \* history: outcome of the structure check ("none" when not run)
    post_in,        \* history: article entering the post-processing stage
    post_mid,       \* history: article leaving the post-processing stage
    result,         \* the returned dict's "article", NoResult before/without return
    src_outcome,    \* history: what the source catalog step came to ("" before it)
    st_doc,         \* section tools: article_md
    st_title,       \* section tools: section_title
    st_new,         \* section tools: new_section_md / the capability's answer
    st_out,         \* section tools: returned text
    st_secs,        \* section tools: value returned by list_sections
    st_ext,         \* section tools: value returned by extract_section_text
    nh_doc,         \* normalize_headings: article_md
    nh_opts,        \* normalize_headings: the keyword options
    nh_first,       \* normalize_headings(nh_doc): {normalized, changes, headings}
    nh_second,      \* normalize_headings(nh_first.normalized), same options
    sd_cur,         \* style_diversity_report: current_article
    sd_corpus,      \* style_diversity_report: corpus_raw, as its '---' parts
    sd_topk,        \* style_diversity_report: top_k
    sd_sims,        \* style_diversity_report: sims (similarity per corpus document)
    sd_report,      \* style_diversity_report: the returned report
    qc_doc,         \* run_quality_report: article_markdown
    qc_report,      \* run_quality_report: the returned report
    cl_doc,         \* clean_article: article_markdown
    cl_opts,        \* clean_article: the keyword options
    cl_pre,         \* history: text entering _remove_filler_lines
    cl_post,        \* history: text leaving _remove_filler_lines
    cl_out,         \* clean_article: the returned {cleaned, report}
    ef_text,        \* the document the enhanced-fix tools are applied to
    ef_prev,        \* history: the document before the last application
    ef_hopts,       \* run_enhanced_fix: heading_opts
    ef_steps,       \* history: applications made so far
    ef_inserted,    \* history: times the canned block was inserted
    ef_stages,      \* history: text and reports after step 4 of the last run
    ef_outcome,     \* history: not_asked / answered / failed in the last run
    ef_res,         \* run_enhanced_fix: the last returned {article, reports}
    ps_catalog,     \* pick_sources_for_article: all_sources
    ps_picked,      \* pick_sources_for_article: the returned list, as positions
    ct_total,       \* compute_targets: total_words
    ct_profile,     \* compute_targets: profile_name
    ct_accum,       \* history: accum, the sum of the targets before balancing
    ct_targets      \* compute_targets: the returned targets

vars == <<pc, outline_mode, outline_md, length_preset, first_pass, article,
          prev_article, calls, responses, raised, checked, post_in, post_mid,
          result, src_outcome, st_doc, st_title, st_new, st_out, st_secs, st_ext,
          nh_doc, nh_opts, nh_first, nh_second,
          sd_cur, sd_corpus, sd_topk, sd_sims, sd_report,
          qc_doc, qc_report, cl_doc, cl_opts, cl_pre, cl_post, cl_out,
          ef_text, ef_prev, ef_hopts, ef_steps, ef_inserted, ef_stages,
          ef_outcome, ef_res, ps_catalog, ps_picked,
          ct_total, ct_profile, ct_accum, ct_targets>>

genVars == <<outline_mode, outline_md, length_preset, first_pass, article,
             prev_article, calls, responses, raised, checked, post_in,
             post_mid, result, src_outcome>>
stVars == <<st_doc, st_title, st_new, st_out, st_secs, st_ext>>
nhVars == <<nh_doc, nh_opts, nh_first, nh_second>>
\* the variables of the analyzers and fixers outside generate_article and
\* the section tools
sdVars == <<sd_cur, sd_corpus, sd_topk, sd_sims, sd_report>>
qcVars == <<qc_doc, qc_report>>
clVars == <<cl_doc, cl_opts, cl_pre, cl_post, cl_out>>
efVars == <<ef_text, ef_prev, ef_hopts, ef_steps, ef_inserted, ef_stages,
            ef_outcome, ef_res>>
psVars == <<ps_catalog, ps_picked>>
ctVars == <<ct_total, ct_profile, ct_accum, ct_targets>>
toolVars == <<nhVars, sdVars, qcVars, clVars, efVars, psVars, ctVars>>
\* what a call of normalize_headings / style_diversity_report /
\* run_quality_report / clean_article / the enhanced-fix tools leaves alone
notNhVars == <<genVars, stVars, sdVars, qcVars, clVars, efVars, psVars, ctVars>>
notSdVars == <<genVars, stVars, nhVars, qcVars, clVars, efVars, psVars, ctVars>>
notQcVars == <<genVars, stVars, nhVars, sdVars, clVars, efVars, psVars, ctVars>>
notClVars == <<genVars, stVars, nhVars, sdVars, qcVars, efVars, psVars, ctVars>>
notEfVars == <<genVars, stVars, nhVars, sdVars, qcVars, clVars, psVars, ctVars>>
notPsVars == <<genVars, stVars, nhVars, sdVars, qcVars, clVars, efVars, ctVars>>
notCtVars == <<genVars, stVars, nhVars, sdVars, qcVars, clVars, efVars, psVars>>

\* no analyzer or fixer has been called
NhIdle ==
    /\ nh_doc = <<>> /\ nh_opts = <<>> /\ nh_first = <<>> /\ nh_second = <<>>

SdIdle ==
    /\ sd_cur = <<>> /\ sd_corpus = <<>> /\ sd_topk = 0 /\ sd_sims = <<>>
    /\ sd_report = <<>>

QcIdle == qc_doc = <<>> /\ qc_report = <<>>

ClIdle ==
    /\ cl_doc = <<>> /\ cl_opts = <<>> /\ cl_pre = <<>> /\ cl_post = <<>>
    /\ cl_out = <<>>

EfIdle ==
    /\ ef_text = <<>> /\ ef_prev = <<>> /\ ef_hopts = <<>>
    /\ ef_steps = 0 /\ ef_inserted = 0
    /\ ef_stages = <<>> /\ ef_outcome = "" /\ ef_res = <<>>

PsIdle == ps_catalog = <<>> /\ ps_picked = <<>>

CtIdle ==
    /\ ct_total = 0 /\ ct_profile = "" /\ ct_accum = 0 /\ ct_targets = <<>>

RestIdle == PsIdle /\ CtIdle

ToolsIdle == NhIdle /\ SdIdle /\ QcIdle /\ ClIdle /\ EfIdle /\ RestIdle

\* no section tool has been called
StIdle ==
    /\ st_doc = <<>> /\ st_title = <<>> /\ st_new = <<>> /\ st_out = <<>>
    /\ st_secs = <<>> /\ st_ext = <<>>

----------------------------------------------------------------------------
(* Python string primitives                                                *)

NL == "\n"
SP == " "
HASH == "#"

\* str.isspace() on one character (the model's whitespace is " " and "\n")
IsWs(c) == c \in {SP, NL}

MinOf(S) == CHOOSE x \in S : \A y \in S : x <= y
MaxOf(S) == CHOOSE x \in S : \A y \in S : x >= y

\* s[a:b]
Slice(s, a, b) == SubSeq(s, a + 1, b)

\* F(v) with v evaluated once, before F is entered (Python evaluates the
\* argument of a call before the call)
Call(v, F(_)) == CHOOSE r \in {F(x) : x \in {v}} : TRUE

\* str.rstrip()
RStrip(s) ==
    LET keep == {i \in 1..Len(s) : ~IsWs(s[i])}
    IN  IF keep = {} THEN <<>> ELSE SubSeq(s, 1, MaxOf(keep))

\* str.lstrip()
LStrip(s) ==
    LET keep == {i \in 1..Len(s) : ~IsWs(s[i])}
    IN  IF keep = {} THEN <<>> ELSE SubSeq(s, MinOf(keep), Len(s))

\* str.strip()
Strip(s) == LStrip(RStrip(s))

\* str.startswith(p)
StartsWith(s, p) == Len(s) >= Len(p) /\ SubSeq(s, 1, Len(p)) = p

\* p in s
Contains(s, p) ==
    \E i \in 0..(Len(s) - Len(p)) : Slice(s, i, i + Len(p)) = p

\* least offset >= p whose character is a newline, else len(s)
LineEnd(s, p) ==
    LET nl == {i \in p..(Len(s) - 1) : s[i + 1] = NL}
    IN  IF nl = {} THEN Len(s) ELSE MinOf(nl)

\* least offset >= p whose character is not whitespace, else len(s)
WsEnd(s, p) ==
    LET non == {i \in p..(Len(s) - 1) : ~IsWs(s[i + 1])}
    IN  IF non = {} THEN Len(s) ELSE MinOf(non)

\* str.splitlines(): split on "\n"; a final newline opens no extra line
RECURSIVE SplitLinesFrom(_, _)
SplitLinesFrom(s, p) ==
    IF p >= Len(s) THEN <<>>
    ELSE LET e == LineEnd(s, p)
         IN  <<Slice(s, p, e)>> \o SplitLinesFrom(s, e + 1)

SplitLines(s) == SplitLinesFrom(s, 0)

\* "\n".join(lines)
RECURSIVE JoinLines(_)
JoinLines(lines) ==
    IF lines = <<>> THEN <<>>
    ELSE IF Len(lines) = 1 THEN lines[1]
    ELSE lines[1] \o <<NL>> \o JoinLines(Tail(lines))

----------------------------------------------------------------------------
(* Heading regular expressions                                             *)

NoMatch == [start |-> -1, end |-> -1, title |-> <<>>]

\* ^#{n}\s+(.+?)\s*$ (re.M), the hashes beginning at offset i and the greedy
\* \s+ (it crosses newlines) reaching up to offset j: where the title group
\* begins.  When \s+ ran to the end of the text it gives back up to the last
\* character that (.+?) can take; -1 when there is none.
TitleStart(s, n, i, j) ==
    LET ks == {x \in (i + n + 1)..(Len(s) - 1) : s[x + 1] # NL}
    IN  IF j < Len(s) THEN j ELSE IF ks = {} THEN -1 ELSE MaxOf(ks)

\* where the lazy title group beginning at k ends: after the last character
\* of k's line that is not a space
TitleEnd(s, k) ==
    LET ns == {x \in k..(LineEnd(s, k) - 1) : s[x + 1] # SP}
    IN  IF ns = {} THEN k + 1 ELSE MaxOf(ns) + 1

\* m.end(): the trailing \s* is greedy and $ makes it back off to the last
\* newline it ran over (or it stops at the end of the text)
MatchEnd(s, e) ==
    LET q == WsEnd(s, e)
    IN  IF q = Len(s) THEN Len(s)
        ELSE MaxOf({x \in e..(q - 1) : s[x + 1] = NL})

\* One match of  ^#{n}\s+(.+?)\s*$  (re.M) beginning at offset i:
\* start/end are m.start()/m.end(), title is the title group stripped.
HeadingMatchAt(s, n, i) ==
    IF /\ (i = 0 \/ s[i] = NL)
       /\ i + n <= Len(s)
       /\ \A x \in i..(i + n - 1) : s[x + 1] = HASH
    THEN Call(WsEnd(s, i + n), LAMBDA j :
         Call(TitleStart(s, n, i, j), LAMBDA k :
            IF j >= i + n + 1 /\ k >= 0
            THEN Call(TitleEnd(s, k), LAMBDA e :
                    [start |-> i, end |-> MatchEnd(s, e),
                     title |-> Strip(Slice(s, k, e))])
            ELSE NoMatch))
    ELSE NoMatch

\* re.finditer of  ^#{n}\s+(.+?)\s*$  (re.M): leftmost matches, each search
\* resuming where the previous match ended
RECURSIVE HeadingIterFrom(_, _, _)
HeadingIterFrom(s, n, p) ==
    Call({HeadingMatchAt(s, n, i) : i \in p..(Len(s) - 1)} \ {NoMatch}, LAMBDA ms :
        IF ms = {} THEN <<>>
        ELSE Call(CHOOSE m \in ms : \A o \in ms : m.start <= o.start,
                  LAMBDA m : <<m>> \o HeadingIterFrom(s, n, m.end)))

\* H2_RE.finditer(text) / _H2_EXACT_RE.finditer(md)
H2_RE(s) == Call(s, LAMBDA t : HeadingIterFrom(t, 2, 0))
\* H3_RE.finditer(text)
H3_RE(s) == Call(s, LAMBDA t : HeadingIterFrom(t, 3, 0))

NoHx == [level |-> 0, title |-> <<>>]

\* _HX_RE.match(line) for one line of splitlines():  ^(#{2,6})\s*(.+?)\s*$
\* level is len(group(1)), title is group(2).strip()
HX_RE(line) ==
    LET non  == {i \in 1..Len(line) : line[i] # HASH}
        c    == IF non = {} THEN Len(line) ELSE MinOf(non) - 1
        h    == IF c > 6 THEN 6 ELSE c
        rest == SubSeq(line, h + 1, Len(line))
    IN  IF c < 2 THEN NoHx
        ELSE IF rest # <<>> THEN [level |-> h, title |-> Strip(rest)]
        ELSE IF h > 2 THEN [level |-> h - 1, title |-> <<HASH>>]
        ELSE NoHx

\* _extract_h2_h3_titles
RECURSIVE TitlesOfLines(_)
TitlesOfLines(lines) ==
    IF lines = <<>> THEN <<>>
    ELSE LET m == HX_RE(lines[1])
         IN  (IF m.level \in {2, 3} THEN <<m.title>> ELSE <<>>)
             \o TitlesOfLines(Tail(lines))

_extract_h2_h3_titles(md) == TitlesOfLines(SplitLines(md))


----------------------------------------------------------------------------
(* utils/section_tools.py                                                  *)

\* the sort left out: H2 matches first, then H3 matches
SortByStart_Unsorted(ms) == ms

\* matches.sort(key=lambda x: x[2]): insert one match by its start offset
RECURSIVE InsertByStart(_, _)
InsertByStart(m, sorted) ==
    IF sorted = <<>> THEN <<m>>
    ELSE IF m.start < sorted[1].start THEN <<m>> \o sorted
    ELSE Call(Tail(sorted), LAMBDA rest : <<sorted[1]>> \o InsertByStart(m, rest))

RECURSIVE SortByStart(_)
SortByStart(ms) ==
    IF ms = <<>> THEN <<>>
    ELSE Call(SubSeq(ms, 1, Len(ms) - 1), LAMBDA front :
         Call(SortByStart(front), LAMBDA sorted :
            InsertByStart(ms[Len(ms)], sorted)))

\* the (title, level, start, endline) tuples collected from one regex
WithLevel(ms, lvl) ==
    [i \in 1..Len(ms) |->
        [title |-> ms[i].title, level |-> lvl, start |-> ms[i].start, endline |-> ms[i].end]]

\* list_sections(article_md): [(title, level, start_idx, end_idx)]
list_sections(text) ==
    Call(H2_RE(text), LAMBDA h2 :
    Call(H3_RE(text), LAMBDA h3 :
    Call(WithLevel(h2, 2) \o WithLevel(h3, 3), LAMBDA found :
    Call(SortByStart(found), LAMBDA matches :
        [i \in 1..Len(matches) |->
            [title |-> matches[i].title,
             level |-> matches[i].level,
             start |-> matches[i].start,
             end   |-> IF i + 1 <= Len(matches) THEN matches[i + 1].start
                       ELSE Len(text)]]))))

\* index of the first section carrying the title, 0 when there is none
\* (the "for ... if title == section_title" loops)
FirstWithTitle(secs, title) ==
    LET hit == {i \in 1..Len(secs) : secs[i].title = title}
    IN  IF hit = {} THEN 0 ELSE MinOf(hit)

\* extract_section_text(article_md, section_title)
extract_section_text(text, section_title) ==
    Call(list_sections(text), LAMBDA secs :
    Call(FirstWithTitle(secs, section_title), LAMBDA i :
        IF i = 0 THEN <<>>
        ELSE RStrip(Slice(text, secs[i].start, secs[i].end))))

\* the separating newline after the new section left out
replace_section_text_NoNewline(text, section_title, new_section_md) ==
    Call(list_sections(text), LAMBDA secs :
    Call(FirstWithTitle(secs, section_title), LAMBDA i :
        IF i = 0 THEN text
        ELSE Slice(text, 0, secs[i].start) \o RStrip(new_section_md)
             \o Slice(text, secs[i].end, Len(text))))

\* replace_section_text(article_md, section_title, new_section_md)
replace_section_text(text, section_title, new_section_md) ==
    Call(list_sections(text), LAMBDA secs :
    Call(FirstWithTitle(secs, section_title), LAMBDA i :
        IF i = 0 THEN text
        ELSE Slice(text, 0, secs[i].start) \o (RStrip(new_section_md) \o <<NL>>)
             \o Slice(text, secs[i].end, Len(text))))

----------------------------------------------------------------------------
(* The generation capability                                               *)

Failure == <<"GenerationFailure">>

\* an exception of the capability swallowed into an empty answer
chat_complete_Swallow(o) ==
    IF o.first = "ok" \/ (o.first = "TypeError" /\ o.second = "ok")
    THEN Strip(o.content) ELSE <<>>

\* chat_complete: the first create() may return, raise TypeError (then the
\* call is repeated with max_tokens) or raise anything else; whatever the
\* second create() raises propagates.  The returned content is stripped.
chat_complete(o) ==
    IF o.first = "ok" THEN Strip(o.content)
    ELSE IF o.first = "TypeError" /\ o.second = "ok" THEN Strip(o.content)
    ELSE Failure

\* what one call of the capability can do when it answers with a text of R
Outcomes(R) ==
    [first : {"ok"}, second : {"ok"}, content : R]
    \cup [first : {"TypeError"}, second : {"ok"}, content : R]
    \cup [first : {"TypeError", "error"}, second : {"error"}, content : {<<>>}]

\* regenerate_section after the capability answered new_sec (lines 137-149)
\* the heading line put in front of an answer that starts with none: the
\* level is that of the first section carrying the title (lines 141-147)
HeadingPrefix(article_md, section_title) ==
    Call(list_sections(article_md), LAMBDA secs :
    Call(FirstWithTitle(secs, section_title), LAMBDA i :
        IF i # 0 /\ secs[i].level # 2 THEN <<HASH, HASH, HASH, SP>>
        ELSE <<HASH, HASH, SP>>))

regenerate_section(article_md, section_title, answer) ==
    Call(Strip(answer), LAMBDA new_sec :
        IF \/ StartsWith(new_sec, <<HASH, HASH, SP>>)
           \/ StartsWith(new_sec, <<HASH, HASH, HASH, SP>>)
        THEN replace_section_text(article_md, section_title, new_sec)
        ELSE Call(HeadingPrefix(article_md, section_title) \o section_title
                      \o <<NL>> \o new_sec,
                  LAMBDA headed :
                      replace_section_text(article_md, section_title, headed)))

----------------------------------------------------------------------------
(* Inputs of the section tools                                             *)

MaxDocLines == 3
MaxNewLines == 2

H2Line(t) == <<HASH, HASH, SP>> \o t
H3Line(t) == <<HASH, HASH, HASH, SP>> \o t

\* all texts of at most n lines drawn from the set lines
TextsOf(lines, n) ==
    {JoinLines(f) : f \in UNION {[1..k -> lines] : k \in 0..n}}

\* lines of a document: a heading of either level carrying the title "a",
\* a line holding only "##", a text line that ends in a space
DocLineSet ==
    {H2Line(<<"a">>), H3Line(<<"a">>), <<HASH, HASH>>, <<"x", SP>>}

\* lines of a replacement or of an answer: the heading "a" at either level,
\* a heading with another title, a text line that ends in a space
NewLineSet ==
    {H2Line(<<"a">>), H3Line(<<"a">>), H2Line(<<"z">>), <<"y", SP>>}

StDocs == TextsOf(DocLineSet, MaxDocLines)
StNews == TextsOf(NewLineSet, MaxNewLines)
StTitles == {<<"a">>}

NoResult == <<"NoResult">>

GenIdle ==
    /\ outline_mode = "" /\ outline_md = <<>> /\ length_preset = ""
    /\ first_pass = <<>> /\ article = <<>> /\ prev_article = <<>>
    /\ calls = <<>> /\ responses = <<>> /\ raised = <<>> /\ checked = "none"
    /\ post_in = <<>> /\ post_mid = <<>> /\ result = NoResult
    /\ src_outcome = ""

StInit ==
    /\ pc = "st_in"
    /\ st_doc \in StDocs
    /\ st_title = <<>> /\ st_new = <<>> /\ st_out = <<>>
    /\ st_secs = <<>> /\ st_ext = <<>>
    /\ GenIdle
    /\ ToolsIdle

\* a caller lists the sections of the document
ListSections ==
    /\ pc = "st_in"
    /\ pc' = "st_listed"
    /\ st_secs' = list_sections(st_doc)
    /\ UNCHANGED <<st_doc, st_title, st_new, st_out, st_ext>>
    /\ UNCHANGED <<genVars, toolVars>>

\* a caller replaces one section
ReplaceSection ==
    /\ pc = "st_in"
    /\ \E t \in StTitles, n \in StNews :
          /\ st_title' = t
          /\ st_new' = n
          /\ st_out' = replace_section_text(st_doc, t, n)
    /\ pc' = "st_replaced"
    /\ UNCHANGED <<st_doc, st_secs, st_ext>>
    /\ UNCHANGED <<genVars, toolVars>>

\* ... and then extracts the section of that title from the result
ExtractSection ==
    /\ pc = "st_replaced"
    /\ pc' = "st_extracted"
    /\ st_ext' = extract_section_text(st_out, st_title)
    /\ UNCHANGED <<st_doc, st_title, st_new, st_out, st_secs>>
    /\ UNCHANGED <<genVars, toolVars>>

\* regenerate_section: returns the document as it is when the section is
\* not found, raises when the capability fails, else replaces the section
RegenerateSection ==
    /\ pc = "st_in"
    /\ \E t \in StTitles, o \in Outcomes(StNews) :
          /\ st_title' = t
          /\ IF extract_section_text(st_doc, t) = <<>>
             THEN /\ pc' = "st_regenerated"
                  /\ st_new' = <<>>
                  /\ st_out' = st_doc
             ELSE IF chat_complete(o) = Failure
             THEN /\ pc' = "st_failed"
                  /\ st_new' = <<>>
                  /\ st_out' = <<>>
             ELSE /\ pc' = "st_regenerated"
                  /\ st_new' = chat_complete(o)
                  /\ st_out' = regenerate_section(st_doc, t, st_new')
    /\ UNCHANGED <<st_doc, st_secs, st_ext>>
    /\ UNCHANGED <<genVars, toolVars>>

StNext == ListSections \/ ReplaceSection \/ ExtractSection \/ RegenerateSection

SpecSections == StInit /\ [][StNext]_vars

----------------------------------------------------------------------------
(* Properties of the section tools                                         *)

\* text[s1.start:s1.end] + text[s2.start:s2.end] + ...
RECURSIVE ConcatSections(_, _)
ConcatSections(text, secs) ==
    IF secs = <<>> THEN <<>>
    ELSE Slice(text, secs[1].start, secs[1].end) \o ConcatSections(text, Tail(secs))

\* C8: list_sections returns the sections in non-decreasing start order and
\* pairwise non-overlapping; each section ends where the next one starts, the
\* last one ends at the document length, and the text before the first
\* heading followed by the sections is the whole document.
C8_SectionsPartition ==
    pc = "st_listed" =>
        /\ \A i \in 1..Len(st_secs) :
              /\ 0 <= st_secs[i].start
              /\ st_secs[i].start <= st_secs[i].end
              /\ st_secs[i].end <= Len(st_doc)
        /\ \A i \in 1..(Len(st_secs) - 1) :
              /\ st_secs[i].start <= st_secs[i + 1].start
              /\ st_secs[i].end = st_secs[i + 1].start
        /\ \A i, j \in 1..Len(st_secs) : i < j => st_secs[i].end <= st_secs[j].start
        /\ st_secs # <<>> => st_secs[Len(st_secs)].end = Len(st_doc)
        /\ Slice(st_doc, 0, IF st_secs = <<>> THEN Len(st_doc) ELSE st_secs[1].start)
              \o ConcatSections(st_doc, st_secs) = st_doc

\* a listed document with text before its first heading and an H3 section
\* that precedes an H2 section
C8_Witness ==
    /\ pc = "st_listed"
    /\ Len(st_secs) >= 2
    /\ st_secs[1].start > 0
    /\ \E i, j \in 1..Len(st_secs) :
          i < j /\ st_secs[i].level = 3 /\ st_secs[j].level = 2

\* the text without its first line
BodyOf(text) ==
    LET e == LineEnd(text, 0)
    IN  IF e >= Len(text) THEN <<>> ELSE Slice(text, e + 1, Len(text))

TitlePresent(text, title) == FirstWithTitle(list_sections(text), title) # 0

\* C9 as stated: for any title present in doc and ANY replacement newMd,
\* extract(replace(doc, title, newMd), title) equals newMd, up to trailing
\* whitespace or up to the heading line.
C9_AnyReplacement ==
    (pc = "st_extracted" /\ TitlePresent(st_doc, st_title)) =>
        \/ st_ext = RStrip(st_new)
        \/ BodyOf(st_ext) = BodyOf(RStrip(st_new))

\* newMd is the section's own heading line (the level's hashes, one space,
\* the title) followed by lines none of which begins with "##"
OwnHeadingOnly(new, title, level) ==
    LET lines == SplitLines(new)
    IN  /\ lines # <<>>
        /\ lines[1] = (IF level = 2 THEN H2Line(title) ELSE H3Line(title))
        /\ \A i \in 2..Len(lines) : ~StartsWith(lines[i], <<HASH, HASH>>)

\* C9 (amended): for a non-empty title present in doc and a replacement
\* that starts with the section's own heading line (same level, same title)
\* and has no other line beginning with "##", extract(replace(doc, title,
\* newMd), title) equals newMd without its trailing whitespace.
C9_RoundTrip ==
    LET secs == list_sections(st_doc)
        i    == FirstWithTitle(secs, st_title)
    IN  (/\ pc = "st_extracted"
         /\ i # 0
         /\ st_title # <<>>
         /\ OwnHeadingOnly(st_new, st_title, secs[i].level))
        => st_ext = RStrip(st_new)

\* a section followed by another one was replaced by a heading plus a body
\* that ends in whitespace
C9_Witness ==
    LET secs == list_sections(st_doc)
        i    == FirstWithTitle(secs, st_title)
    IN  /\ pc = "st_extracted"
        /\ i # 0
        /\ i < Len(secs)
        /\ OwnHeadingOnly(st_new, st_title, secs[i].level)
        /\ Len(SplitLines(st_new)) >= 2
        /\ st_ext = RStrip(st_new)
        /\ st_ext # st_new
        /\ st_out # st_doc

\* the (title, level) pairs of the sections starting in [from, to)
TitleLevels(text, from, to) ==
    LET secs == list_sections(text)
        idx  == {i \in 1..Len(secs) : from <= secs[i].start /\ secs[i].start < to}
    IN  [n \in 1..Cardinality(idx) |->
            LET i == CHOOSE i \in idx : Cardinality({k \in idx : k < i}) = n - 1
            IN  <<secs[i].title, secs[i].level>>]

\* C10: when regenerate_section returns for a title present in the document,
\* the target section keeps its heading line (same title and level), the
\* text before start and from end onward is unchanged, and the (title,
\* level) pairs of the sections outside the target are the same as before.
C10_RegenerateFrame ==
    LET secs  == list_sections(st_doc)
        i     == FirstWithTitle(secs, st_title)
        start == secs[i].start
        end   == secs[i].end
        tail  == Len(st_doc) - end
        outs  == list_sections(st_out)
    IN  (pc = "st_regenerated" /\ i # 0) =>
            /\ Len(st_out) >= start + tail
            /\ Slice(st_out, 0, start) = Slice(st_doc, 0, start)
            /\ Slice(st_out, Len(st_out) - tail, Len(st_out)) = Slice(st_doc, end, Len(st_doc))
            /\ \E k \in 1..Len(outs) :
                  /\ outs[k].start = start
                  /\ outs[k].title = st_title
                  /\ outs[k].level = secs[i].level
            /\ TitleLevels(st_out, 0, start) = TitleLevels(st_doc, 0, start)
            /\ TitleLevels(st_out, Len(st_out) - tail, Len(st_out) + 1)
                  = TitleLevels(st_doc, end, Len(st_doc) + 1)

----------------------------------------------------------------------------
(* utils/openai_client.py: helpers                                         *)

\* the short preset's minimum set to 500
LENGTH_TARGETS_Short500(preset) ==
    CASE preset = "short"  -> <<500, 800>>
      [] preset = "medium" -> <<900, 1200>>
      [] preset = "long"   -> <<1300, 1600>>
      [] OTHER             -> <<900, 1200>>

\* LENGTH_TARGETS.get(length_preset, (900, 1200))
LENGTH_TARGETS(preset) ==
    CASE preset = "short"  -> <<600, 800>>
      [] preset = "medium" -> <<900, 1200>>
      [] preset = "long"   -> <<1300, 1600>>
      [] OTHER             -> <<900, 1200>>

\* The titles and canned bodies the post-processing works with.  Each is one
\* atom: the code compares the titles as whole strings and only copies the
\* bodies, none of whose lines begins with "#".
TITLE_OPINIONS   == <<"OPINIONS">>      \* "aqwal al-mufassirin (...)"
TITLE_SOURCES    == <<"SOURCES">>       \* "masadir sariha"
TITLE_OUTRO      == <<"OUTRO">>         \* "khatima mas'ula + tanwih mihani"
TITLE_EDITOR     == <<"EDITOR_NOTE">>   \* "ta'liq al-muharrir"
TITLE_FAQ        == <<"FAQ">>           \* "as'ila sha'i'a"
TITLE_COMPARISON == <<"COMPARISON">>    \* "muqarana daqiqa"
DEF_CLASSICAL_OPINIONS == <<"DEF_CLASSICAL_OPINIONS">>
DEF_RESPONSIBLE_OUTRO  == <<"DEF_RESPONSIBLE_OUTRO">>
SOURCES_PLACEHOLDER    == <<"SOURCES_PLACEHOLDER">>

\* number of _WORD_RE matches inside one token; paragraph atoms "pN" stand
\* for N words of body text
WordsIn(tok) ==
    CASE tok \in {HASH, SP, NL, "-"} -> 0
      [] tok \in {"Intro", "Outro", "Other", "Sub"} -> 1
      [] tok \in {"SOURCES", "EDITOR_NOTE", "FAQ", "COMPARISON"} -> 2
      [] tok = "OUTRO" -> 4
      [] tok = "OPINIONS" -> 7
      [] tok = "SOURCES_PLACEHOLDER" -> 4
      [] tok = "DEF_CLASSICAL_OPINIONS" -> 49
      [] tok = "DEF_RESPONSIBLE_OUTRO" -> 72
      [] tok = "p50" -> 50
      [] tok = "p248" -> 248
      [] tok = "p250" -> 250
      [] tok = "p350" -> 350
      [] tok = "p700" -> 700
      [] OTHER -> 1

\* _word_count(text): tokens of a text are separated by "#", " " or "\n",
\* so the words of the text are the words of its tokens
RECURSIVE _word_count(_)
_word_count(text) ==
    IF text = <<>> THEN 0 ELSE WordsIn(text[1]) + _word_count(Tail(text))

\* s.lstrip("-* ") of _normalize_outline_md (bullet characters and spaces)
LStripBullets(s) ==
    LET keep == {i \in 1..Len(s) : s[i] \notin {"-", SP}}
    IN  IF keep = {} THEN <<>> ELSE SubSeq(s, MinOf(keep), Len(s))

RECURSIVE FixOutlineLines(_)
FixOutlineLines(lines) ==
    IF lines = <<>> THEN <<>>
    ELSE LET st == Strip(lines[1])
         IN  (IF st = <<>> THEN <<>>
              ELSE IF st[1] = HASH THEN <<st>>
              ELSE <<H2Line(Strip(LStripBullets(st)))>>)
             \o FixOutlineLines(Tail(lines))

\* _normalize_outline_md(outline_md)
_normalize_outline_md(outline) == Strip(JoinLines(FixOutlineLines(SplitLines(outline))))

\* expand_to_target: is the capability asked at all (line 233)
UnderLength(article_md, preset) ==
    _word_count(article_md) < LENGTH_TARGETS(preset)[1]

\* expand_to_target, line 251: "## " in new_article
KeepsExpansion(new_article) == Contains(new_article, <<HASH, HASH, SP>>)

\* expand_to_target(article_md, ...) when the capability answered new_article
expand_to_target(article_md, preset, new_article) ==
    IF ~UnderLength(article_md, preset) THEN article_md
    ELSE IF KeepsExpansion(new_article) THEN new_article ELSE article_md

\* verify_and_correct_structure, lines 256-260: is a repair requested
StructureDiffers(article_md, outline) ==
    _extract_h2_h3_titles(article_md)
        # _extract_h2_h3_titles(_normalize_outline_md(outline))

\* the repair answer returned without the second title comparison
verify_and_correct_structure_Unchecked(article_md, outline, fixed) ==
    IF _extract_h2_h3_titles(article_md)
          = _extract_h2_h3_titles(_normalize_outline_md(outline))
    THEN article_md ELSE fixed

\* verify_and_correct_structure when the capability answered fixed
verify_and_correct_structure(article_md, outline, fixed) ==
    IF ~StructureDiffers(article_md, outline) THEN article_md
    ELSE IF ~StructureDiffers(fixed, outline) THEN fixed ELSE article_md

----------------------------------------------------------------------------
(* utils/openai_client.py: post-processing                                 *)

\* index of the first H2 match whose stripped title equals title_exact
FirstH2(matches, title_exact) ==
    LET hit == {i \in 1..Len(matches) : matches[i].title = Strip(title_exact)}
    IN  IF hit = {} THEN 0 ELSE MinOf(hit)

\* _has_h2(md, title_exact)
_has_h2(md, title_exact) == FirstH2(H2_RE(md), title_exact) # 0

\* _append_h2(md, title, body_md)
_append_h2(md, title, body_md) ==
    RStrip(md) \o <<NL, NL>> \o H2Line(title) \o <<NL, NL>> \o Strip(body_md) \o <<NL>>

\* _insert_h2_before(md, before_title_exact, title, body_md)
_insert_h2_before(md, before_title_exact, title, body_md) ==
    LET matches    == H2_RE(md)
        i          == FirstH2(matches, before_title_exact)
        insert_pos == IF i = 0 THEN Len(md) ELSE matches[i].start
    IN  IF matches = <<>> THEN _append_h2(md, title, body_md)
        ELSE Slice(md, 0, insert_pos)
             \o <<NL, NL>> \o H2Line(title) \o <<NL, NL>> \o Strip(body_md) \o <<NL, NL>>
             \o Slice(md, insert_pos, Len(md))

\* _replace_h2_section(md, title_exact, new_body)
_replace_h2_section(md, title_exact, new_body) ==
    LET matches == H2_RE(md)
        i       == FirstH2(matches, title_exact)
        start   == matches[i].end
        end     == IF i + 1 <= Len(matches) THEN matches[i + 1].start ELSE Len(md)
    IN  IF i = 0 THEN md
        ELSE Slice(md, 0, start) \o (<<NL, NL>> \o Strip(new_body) \o <<NL, NL>>)
             \o Slice(md, end, Len(md))

\* _soft_enforce_outline, step 1: the classical opinions
EnsureOpinions(text) ==
    IF _has_h2(text, TITLE_OPINIONS) THEN text
    ELSE IF _has_h2(text, TITLE_FAQ)
         THEN _insert_h2_before(text, TITLE_FAQ, TITLE_OPINIONS, DEF_CLASSICAL_OPINIONS)
    ELSE IF _has_h2(text, TITLE_COMPARISON)
         THEN _insert_h2_before(text, TITLE_COMPARISON, TITLE_OPINIONS, DEF_CLASSICAL_OPINIONS)
    ELSE _append_h2(text, TITLE_OPINIONS, DEF_CLASSICAL_OPINIONS)

\* _soft_enforce_outline, step 2: the explicit sources
EnsureSources(text) ==
    IF _has_h2(text, TITLE_SOURCES) THEN text
    ELSE IF _has_h2(text, TITLE_OUTRO)
         THEN _insert_h2_before(text, TITLE_OUTRO, TITLE_SOURCES, SOURCES_PLACEHOLDER)
    ELSE _append_h2(text, TITLE_SOURCES, SOURCES_PLACEHOLDER)

\* _soft_enforce_outline, step 3: the responsible outro
EnsureOutro(text) ==
    IF _has_h2(text, TITLE_OUTRO) THEN text
    ELSE _append_h2(text, TITLE_OUTRO, DEF_RESPONSIBLE_OUTRO)

\* _soft_enforce_outline(article)
_soft_enforce_outline(text) ==
    Call(EnsureOpinions(text),
         LAMBDA t1 : Call(EnsureSources(t1), LAMBDA t2 : EnsureOutro(t2)))

\* get_editor_note_body() of utils/editor_notes: some note text
get_editor_note_body == <<"EDITOR_NOTE_BODY">>

\* _ensure_editor_note(article)
_ensure_editor_note(text) ==
    IF _has_h2(text, TITLE_EDITOR) THEN text
    ELSE IF _has_h2(text, TITLE_OUTRO)
         THEN _insert_h2_before(text, TITLE_OUTRO, TITLE_EDITOR, Strip(get_editor_note_body))
    ELSE _append_h2(text, TITLE_EDITOR, Strip(get_editor_note_body))

\* generate_article, steps (d) and (e): the post-processing stage
PostProcessed(text) ==
    Call(_soft_enforce_outline(text), LAMBDA t : _ensure_editor_note(t))

----------------------------------------------------------------------------
(* generate_article                                                        *)

\* does this outcome of the capability surface as an exception
Raises(o) == o.first = "error" \/ (o.first = "TypeError" /\ o.second = "error")

\* get_outline(outline_mode) of utils/outline_presets: a canned outline,
\* nothing for the free mode
get_outline(mode) ==
    CASE mode = "modern" -> JoinLines(<<H2Line(<<"Intro">>), <<>>, <<"-", SP, "Outro">>>>)
      [] OTHER           -> <<>>

\* the locked path taken whether or not an outline exists
Locked_Always(outline) == TRUE

\* line 425: include_outline and enforce_outline and outline_md (both flags
\* are forced to True exactly when an internal outline exists)
Locked(outline) == outline # <<>>

\* the texts the capability may answer with
STUB_DRAFT ==
    JoinLines(<<H2Line(<<"Intro">>), <<"p250">>, H2Line(<<"Outro">>), <<"p248">>>>)

Responses ==
    { STUB_DRAFT,
      JoinLines(<<H2Line(<<"Intro">>), <<"p350">>, H2Line(<<"Outro">>), <<"p350">>>>),
      JoinLines(<<H3Line(<<"Sub">>), <<"p700">>>>),
      <<SP, "p700", NL>>,
      JoinLines(<<H2Line(<<"Intro">>), <<"p700">>, <<HASH, HASH>>>>),
      JoinLines(<<H2Line(<<"Intro">>), <<"p700">>, H2Line(TITLE_FAQ), <<"p50">>,
                  H2Line(TITLE_OUTRO), <<"p50">>>>),
      JoinLines(<<H2Line(TITLE_COMPARISON), <<"p50">>, H2Line(TITLE_SOURCES), <<"p50">>>>) }

OutlineModes == {"modern", "none"}
Presets == {"short", "medium", "long"}

\* what loading, picking and formatting the source catalog can come to
SourceOutcomes == {"exception", "empty", "listed"}
SRC_MD == <<"SRC_MD">>

Init ==
    /\ pc = "start"
    /\ outline_mode \in OutlineModes
    /\ length_preset \in Presets
    /\ outline_md = <<>> /\ first_pass = <<>> /\ article = <<>>
    /\ prev_article = <<>>
    /\ calls = <<>> /\ responses = <<>> /\ raised = <<>> /\ checked = "none"
    /\ post_in = <<>> /\ post_mid = <<>> /\ result = NoResult
    /\ src_outcome = ""
    /\ StIdle
    /\ ToolsIdle

\* bookkeeping of one chat_complete call
Called(kind, o) ==
    /\ calls' = Append(calls, kind)
    /\ responses' = Append(responses, chat_complete(o))
    /\ raised' = Append(raised, Raises(o))

\* lines 414-471: pick the outline and obtain the draft
Draft ==
    /\ pc = "start"
    /\ outline_md' = get_outline(outline_mode)
    /\ \E o \in Outcomes(Responses) :
          /\ Called("draft", o)
          /\ IF chat_complete(o) = Failure
             THEN pc' = "failed" /\ UNCHANGED <<first_pass, article>>
             ELSE IF Locked(outline_md')
             THEN pc' = "verify" /\ first_pass' = chat_complete(o) /\ UNCHANGED article
             ELSE pc' = "expand1" /\ article' = chat_complete(o) /\ UNCHANGED first_pass
    /\ UNCHANGED <<outline_mode, length_preset, prev_article, checked, post_in,
                   post_mid, result>>
    /\ UNCHANGED <<src_outcome, stVars, toolVars>>

\* lines 442-446: verify_and_correct_structure(first_pass, outline_md)
Verify ==
    /\ pc = "verify"
    /\ \/ /\ ~StructureDiffers(first_pass, outline_md)
          /\ article' = verify_and_correct_structure(first_pass, outline_md, <<>>)
          /\ checked' = "ok"
          /\ pc' = "expand1"
          /\ UNCHANGED <<calls, responses, raised>>
       \/ /\ StructureDiffers(first_pass, outline_md)
          /\ \E o \in Outcomes(Responses) :
                /\ Called("repair", o)
                /\ IF chat_complete(o) = Failure
                   THEN pc' = "failed" /\ UNCHANGED <<article, checked>>
                   ELSE /\ pc' = "expand1"
                        /\ article' = verify_and_correct_structure(first_pass, outline_md,
                                                                  chat_complete(o))
                        /\ checked' = IF StructureDiffers(chat_complete(o), outline_md)
                                      THEN "mismatch" ELSE "repaired"
    /\ UNCHANGED <<outline_mode, outline_md, length_preset, first_pass, prev_article,
                   post_in, post_mid, result>>
    /\ UNCHANGED <<src_outcome, stVars, toolVars>>

\* lines 474-480: article = expand_to_target(article)
Expand1 ==
    /\ pc = "expand1"
    /\ \/ /\ ~UnderLength(article, length_preset)
          /\ article' = expand_to_target(article, length_preset, <<>>)
          /\ pc' = "expand2"
          /\ UNCHANGED <<calls, responses, raised, prev_article>>
       \/ /\ UnderLength(article, length_preset)
          /\ \E o \in Outcomes(Responses) :
                /\ Called("expand", o)
                /\ prev_article' = article
                /\ IF chat_complete(o) = Failure
                   THEN pc' = "failed" /\ UNCHANGED article
                   ELSE /\ pc' = "expand2"
                        /\ article' = expand_to_target(article, length_preset, chat_complete(o))
    /\ UNCHANGED <<outline_mode, outline_md, length_preset, first_pass, checked,
                   post_in, post_mid, result>>
    /\ UNCHANGED <<src_outcome, stVars, toolVars>>

\* lines 482-490: if _word_count(article) < length_min, expand_to_target again
Expand2 ==
    /\ pc = "expand2"
    /\ IF _word_count(article) < LENGTH_TARGETS(length_preset)[1]
       THEN IF UnderLength(article, length_preset)
            THEN \E o \in Outcomes(Responses) :
                    /\ Called("expand", o)
                    /\ prev_article' = article
                    /\ IF chat_complete(o) = Failure
                       THEN pc' = "failed" /\ UNCHANGED article
                       ELSE /\ pc' = "post"
                            /\ article' = expand_to_target(article, length_preset,
                                                           chat_complete(o))
            ELSE /\ article' = expand_to_target(article, length_preset, <<>>)
                 /\ pc' = "post"
                 /\ UNCHANGED <<calls, responses, raised, prev_article>>
       ELSE /\ pc' = "post"
            /\ UNCHANGED <<article, calls, responses, raised, prev_article>>
    /\ UNCHANGED <<outline_mode, outline_md, length_preset, first_pass, checked,
                   post_in, post_mid, result>>
    /\ UNCHANGED <<src_outcome, stVars, toolVars>>

\* lines 493-496: _soft_enforce_outline, then _ensure_editor_note
PostProcess ==
    /\ pc = "post"
    /\ post_in' = article
    /\ article' = PostProcessed(article)
    /\ post_mid' = article'
    /\ pc' = "sources"
    /\ UNCHANGED <<outline_mode, outline_md, length_preset, first_pass, prev_article,
                   calls, responses, raised, checked, result>>
    /\ UNCHANGED <<src_outcome, stVars, toolVars>>

\* lines 499-511: inject the sources; any exception is swallowed
InjectSources ==
    /\ pc = "sources"
    /\ \E src \in SourceOutcomes :
          /\ src_outcome' = src
          /\ article' = IF src = "listed"
                        THEN _replace_h2_section(article, TITLE_SOURCES, SRC_MD)
                        ELSE article
    /\ pc' = "return"
    /\ UNCHANGED <<outline_mode, outline_md, length_preset, first_pass, prev_article,
                   calls, responses, raised, checked, post_in, post_mid, result>>
    /\ UNCHANGED <<stVars, toolVars>>

\* lines 530-535: return the result
Return ==
    /\ pc = "return"
    /\ result' = article
    /\ pc' = "done"
    /\ UNCHANGED <<outline_mode, outline_md, length_preset, first_pass, article,
                   prev_article, calls, responses, raised, checked, post_in, post_mid>>
    /\ UNCHANGED <<src_outcome, stVars, toolVars>>

Next == Draft \/ Verify \/ Expand1 \/ Expand2 \/ PostProcess \/ InjectSources \/ Return

Spec == Init /\ [][Next]_vars

----------------------------------------------------------------------------
(* Properties of generate_article                                          *)

CountOf(seq, x) == Cardinality({i \in 1..Len(seq) : seq[i] = x})

\* draft, then at most one repair, then at most two expansions
CallShape ==
    /\ Len(calls) <= 4
    /\ Len(responses) = Len(calls) /\ Len(raised) = Len(calls)
    /\ calls # <<>> => calls[1] = "draft"
    /\ CountOf(calls, "draft") <= 1
    /\ CountOf(calls, "repair") <= 1
    /\ CountOf(calls, "expand") <= 2
    /\ \A i \in 1..Len(calls) : calls[i] \in {"draft", "repair", "expand"}
    /\ \A i \in 1..Len(calls) : calls[i] = "repair" => (i = 2 /\ outline_md # <<>>)
    /\ pc \in {"verify", "expand1", "expand2", "post", "sources", "return", "done"}
          => CountOf(calls, "draft") = 1

\* a step makes at most one call, after every earlier call was answered
CallStep ==
    \/ calls' = calls
    \/ /\ Len(calls') = Len(calls) + 1
       /\ SubSeq(calls', 1, Len(calls)) = calls
       /\ \A i \in 1..Len(calls) : ~raised[i]

\* C1: in every run of generate_article the capability calls are exactly
\* one draft call, then at most one structure-repair call (only on the
\* outline-locked path), then at most two expansion calls; the calls are made
\* one after the other and never more than 4 per run.
C1_CallSequence == [](CallShape) /\ [][CallStep]_vars

\* a finished locked run that made all four calls
C1_Witness ==
    /\ pc = "done"
    /\ calls = <<"draft", "repair", "expand", "expand">>
    /\ outline_md # <<>>

\* C2: on the locked path, when the draft's titles differ from the outline's
\* and the repair answer differs too, the repair is discarded and the
\* pipeline goes on with the original draft; the run ends with a result
\* unless a later capability call fails.
C2_RepairMismatchKeepsDraft ==
    (/\ Len(calls) >= 2
     /\ calls[2] = "repair"
     /\ ~raised[2]
     /\ StructureDiffers(responses[2], outline_md))
    => /\ StructureDiffers(first_pass, outline_md)
       /\ first_pass = responses[1]
       /\ checked = "mismatch"
       /\ pc # "verify"
       /\ pc = "expand1" => article = first_pass
       /\ pc = "failed" => (Len(calls) > 2 /\ raised[Len(calls)])
       /\ pc = "done" => result # NoResult

\* a returned run whose repair answer still mismatched
C2_Witness ==
    /\ pc = "done"
    /\ Len(calls) = 2
    /\ calls[2] = "repair"
    /\ StructureDiffers(responses[2], outline_md)
    /\ responses[2] # responses[1]
    /\ post_in = first_pass
    /\ result # NoResult

\* C3: if any capability call of generate_article fails (draft, repair or
\* either expansion), the whole call aborts with that failure and returns no
\* result, also when a usable draft had been obtained; nothing else aborts it.
C3_FailureAborts ==
    /\ (\E i \in 1..Len(raised) : raised[i])
          => (pc = "failed" /\ result = NoResult /\ raised[Len(raised)])
    /\ pc = "failed" => (raised # <<>> /\ raised[Len(raised)])
    /\ \A i \in 1..Len(raised) : raised[i] <=> responses[i] = Failure

\* an expansion call failed after a draft had been obtained
C3_Witness ==
    /\ pc = "failed"
    /\ calls[Len(calls)] = "expand"
    /\ article # <<>>
    /\ result = NoResult

\* the text has a level-2 heading, for the line scan or for the H2 regex
HasLevel2Heading(text) ==
    \/ H2_RE(text) # <<>>
    \/ \E i \in 1..Len(SplitLines(text)) : HX_RE(SplitLines(text)[i]).level = 2

\* C4: expand_to_target accepts the expansion answer only if it contains a
\* level-2 heading; for every answer without one (also one whose only
\* headings are level 3 or deeper) the pre-expansion text is kept.
C4_ExpansionNeedsH2 ==
    (/\ pc \in {"expand2", "post"}
     /\ calls # <<>>
     /\ calls[Len(calls)] = "expand"
     /\ ~HasLevel2Heading(responses[Len(calls)]))
    => article = prev_article

\* the stub capability answered every call so far with the 500-word draft,
\* in the free mode with the short preset
StubRun ==
    /\ outline_md = <<>>
    /\ length_preset = "short"
    /\ calls # <<>>
    /\ \A i \in 1..Len(responses) : responses[i] = STUB_DRAFT

\* C5 as stated: in the stub run exactly ONE expansion call is made, and the
\* final word count is >= 600 or the pipeline ends without raising.
C5_OneExpansion ==
    (pc = "done" /\ StubRun) =>
        /\ CountOf(calls, "expand") = 1
        /\ (_word_count(post_in) >= 600 \/ result # NoResult)

\* C5 (amended): in the stub run exactly two expansion calls are made (the
\* first leaves the text at 500 words, so the one retry follows), and the
\* pipeline ends after the second attempt without raising, the text still
\* having 500 words.
C5_TwoExpansions ==
    /\ StubRun => pc # "failed"
    /\ (StubRun /\ pc \in {"post", "sources", "return", "done"})
          => calls = <<"draft", "expand", "expand">>
    /\ (StubRun /\ pc = "done")
          => (result # NoResult /\ post_in = STUB_DRAFT /\ _word_count(post_in) = 500)

C5_Witness ==
    /\ pc = "done"
    /\ StubRun
    /\ Len(calls) = 3

\* C6: in outline-locked mode, whenever the structure check or the repair
\* succeeded, the H2/H3 titles of the returned article are those of the
\* normalized outline.
C6_LockedHeadingsFixed ==
    (pc = "done" /\ outline_md # <<>> /\ checked \in {"ok", "repaired"})
    => _extract_h2_h3_titles(result)
          = _extract_h2_h3_titles(_normalize_outline_md(outline_md))

CanonicalTitles == {TITLE_OPINIONS, TITLE_SOURCES, TITLE_OUTRO, TITLE_EDITOR}

\* the numbers of the lines that are the level-2 heading of this title
H2LinesOf(text, title) ==
    {i \in 1..Len(SplitLines(text)) :
        HX_RE(SplitLines(text)[i]) = [level |-> 2, title |-> title]}

\* where post-processing puts a canonical section that the text lacks:
\* before this title's heading, or at the end when the title is <<>>
AnchorOf(text, title) ==
    IF title = TITLE_OPINIONS
    THEN IF H2LinesOf(text, TITLE_FAQ) # {} THEN TITLE_FAQ
         ELSE IF H2LinesOf(text, TITLE_COMPARISON) # {} THEN TITLE_COMPARISON
         ELSE <<>>
    ELSE IF title = TITLE_SOURCES
    THEN IF H2LinesOf(text, TITLE_OUTRO) # {} THEN TITLE_OUTRO ELSE <<>>
    ELSE IF title = TITLE_EDITOR THEN TITLE_OUTRO
    ELSE <<>>

\* C7: after the post-processing stage every canonical title is a level-2
\* heading of the article; a canonical section is inserted only when its
\* title was absent (before its anchor section if present, else at the end),
\* so no second copy appears and post-processing twice equals once.
C7_PostProcessOnce ==
    pc \in {"sources", "return", "done"} =>
        /\ \A t \in CanonicalTitles :
              /\ H2LinesOf(post_mid, t) # {}
              /\ Cardinality(H2LinesOf(post_mid, t))
                    = (IF H2LinesOf(post_in, t) = {} THEN 1
                       ELSE Cardinality(H2LinesOf(post_in, t)))
              /\ (H2LinesOf(post_in, t) = {} /\ AnchorOf(post_in, t) # <<>>)
                    => \E i \in H2LinesOf(post_mid, t) :
                          \E j \in H2LinesOf(post_mid, AnchorOf(post_in, t)) : i < j
              /\ (H2LinesOf(post_in, t) = {} /\ AnchorOf(post_in, t) = <<>>)
                    => \A i \in H2LinesOf(post_mid, t) :
                          i > Len(SplitLines(RStrip(post_in)))
        /\ PostProcessed(post_mid) = post_mid

----------------------------------------------------------------------------
(* utils/heading_tools.py                                                  *)

\* the characters of TRAIL_PUNCT_RE's class that occur in the model's texts
\* ("?" is the Arabic question mark, "AR_COMMA" the Arabic comma, "ELLIPSIS"
\* the one-character ellipsis)
TRAIL_PUNCT == {".", ",", ":", ";", "!", "?", "-", "AR_COMMA", "ELLIPSIS"}

\* "#" * n
RECURSIVE Hashes(_)
Hashes(n) == IF n <= 0 THEN <<>> ELSE <<HASH>> \o Hashes(n - 1)

\* the number of "#" characters in a row from offset i on
HashRun(s, i) ==
    LET other == {x \in i..(Len(s) - 1) : s[x + 1] # HASH}
    IN  IF other = {} THEN Len(s) - i ELSE MinOf(other) - i

NoHline == [start |-> -1, end |-> -1, hashes |-> 0, raw |-> <<>>, group0 |-> <<>>]

\* ^(#{1,6})\s*(.+?)\s*$ with the hash group ending at offset a and the greedy
\* \s* reaching up to j: where the title group begins.  \s* may be empty;
\* when it ran to the end of the text it gives back up to the last character
\* that is no newline; -1 when there is none.
HlineTitleStart(s, a, j) ==
    LET ks == {x \in a..(Len(s) - 1) : s[x + 1] # NL}
    IN  IF j < Len(s) THEN j ELSE IF ks = {} THEN -1 ELSE MaxOf(ks)

\* the match whose hash group has g characters and whose title begins at p
HlineFrom(s, i, g, p) ==
    Call(TitleEnd(s, p), LAMBDA e :
    Call(MatchEnd(s, e), LAMBDA w :
        [start |-> i, end |-> w, hashes |-> g, raw |-> Slice(s, p, e),
         group0 |-> Slice(s, i, w)]))

\* One match of HLINE_RE  ^(#{1,6})\s*(.+?)\s*$  (re.M) beginning at offset
\* i.  The hash group is greedy (at most 6); when no title can follow the
\* whitespace it gives one "#" back, which then is the title's first character.
HlineMatchAt(s, i) ==
    IF /\ (i = 0 \/ s[i] = NL)
       /\ i < Len(s)
       /\ s[i + 1] = HASH
    THEN Call(MinOf({HashRun(s, i), 6}), LAMBDA g :
         Call(WsEnd(s, i + g), LAMBDA j :
         Call(HlineTitleStart(s, i + g, j), LAMBDA p :
            IF p >= 0 THEN HlineFrom(s, i, g, p)
            ELSE IF g >= 2 THEN HlineFrom(s, i, g - 1, i + g - 1)
            ELSE NoHline)))
    ELSE NoHline

\* HLINE_RE.finditer(text)
RECURSIVE HlineIterFrom(_, _)
HlineIterFrom(s, p) ==
    Call({HlineMatchAt(s, i) : i \in p..(Len(s) - 1)} \ {NoHline}, LAMBDA ms :
        IF ms = {} THEN <<>>
        ELSE Call(CHOOSE m \in ms : \A o \in ms : m.start <= o.start,
                  LAMBDA m : <<m>> \o HlineIterFrom(s, m.end)))

HLINE_RE(s) == Call(s, LAMBDA t : HlineIterFrom(t, 0))

\* re.sub(r"\s{2,}", " ", s)
RECURSIVE CollapseFrom(_, _)
CollapseFrom(s, p) ==
    IF p >= Len(s) THEN <<>>
    ELSE IF IsWs(s[p + 1])
    THEN Call(WsEnd(s, p), LAMBDA q :
            (IF q - p >= 2 THEN <<SP>> ELSE <<s[p + 1]>>) \o CollapseFrom(s, q))
    ELSE <<s[p + 1]>> \o CollapseFrom(s, p + 1)

CollapseSpaces(s) == Call(s, LAMBDA t : CollapseFrom(t, 0))

\* re.search(r"\s{2,}", s)
HasSpaceRun(s) == \E i \in 1..(Len(s) - 1) : IsWs(s[i]) /\ IsWs(s[i + 1])

\* TRAIL_PUNCT_RE.sub("", s): the run of punctuation at the end removed
\* (the texts it is applied to hold no newline)
TrimTrailPunct(s) ==
    LET keep == {i \in 1..Len(s) : s[i] \notin TRAIL_PUNCT}
    IN  IF keep = {} THEN <<>> ELSE SubSeq(s, 1, MaxOf(keep))

\* TRAIL_PUNCT_RE.search(s)
EndsWithPunct(s) == s # <<>> /\ s[Len(s)] \in TRAIL_PUNCT

\* _clean_heading_text(text, trim_trailing_punct, collapse_spaces)
_clean_heading_text(text, trim_trailing_punct, collapse_spaces) ==
    Call(Strip(text), LAMBDA s0 :
    Call(IF collapse_spaces THEN CollapseSpaces(s0) ELSE s0, LAMBDA s1 :
        IF trim_trailing_punct THEN Strip(TrimTrailPunct(s1)) ELSE s1))

\* the level after coercion (lines 87-96)
CoerceLevel(level, opts) ==
    Call(IF opts.h1_to_h2 /\ level = 1 THEN 2 ELSE level, LAMBDA l1 :
        IF opts.h4plus_to_h3 /\ l1 >= 4 THEN 3 ELSE l1)

NoChanges ==
    [h1_to_h2 |-> 0, h4plus_to_h3 |-> 0, space_after_hash_fixed |-> 0,
     trimmed_trailing_punct |-> 0, collapsed_spaces |-> 0,
     deduped_headings |-> 0, autonumbered |-> 0, total_headings |-> 0]

B2N(b) == IF b THEN 1 ELSE 0

\* the body of the first loop for one match m (lines 79-114); acc holds
\* out_lines joined, last_end, headings and changes
FirstPassStep(text, opts, m, acc) ==
    Call(CoerceLevel(m.hashes, opts), LAMBDA level :
    Call(_clean_heading_text(m.raw, opts.trim_trailing_punct, opts.collapse_spaces),
         LAMBDA cleaned :
    Call(Hashes(level) \o (IF opts.unify_space_after_hash THEN <<SP>> ELSE <<>>)
            \o cleaned, LAMBDA hline :
        [out      |-> acc.out \o Slice(text, acc.last_end, m.start) \o hline \o <<NL>>,
         last_end |-> m.end,
         headings |-> Append(acc.headings, [title |-> cleaned, level |-> level]),
         changes  |->
            [acc.changes EXCEPT
                !.h1_to_h2 = @ + B2N(opts.h1_to_h2 /\ m.hashes = 1),
                !.h4plus_to_h3 = @ + B2N(opts.h4plus_to_h3 /\ m.hashes >= 4),
                !.trimmed_trailing_punct =
                    @ + B2N(opts.trim_trailing_punct /\ cleaned # m.raw
                            /\ EndsWithPunct(m.raw)),
                !.collapsed_spaces =
                    @ + B2N(opts.collapse_spaces /\ HasSpaceRun(m.raw)),
                !.space_after_hash_fixed =
                    @ + B2N(/\ opts.unify_space_after_hash
                            /\ StartsWith(m.group0, Hashes(level))
                            /\ ~StartsWith(m.group0, Hashes(level) \o <<SP>>))]])))

RECURSIVE FirstPassFrom(_, _, _, _, _)
FirstPassFrom(text, opts, ms, k, acc) ==
    IF k > Len(ms) THEN acc
    ELSE Call(FirstPassStep(text, opts, ms[k], acc), LAMBDA next :
            FirstPassFrom(text, opts, ms, k + 1, next))

\* lines 73-120: the text with every heading line rewritten, the headings
\* collected and the counters
FirstPass(text, opts) ==
    Call(HLINE_RE(text), LAMBDA ms :
    Call(FirstPassFrom(text, opts, ms, 1,
            [out |-> <<>>, last_end |-> 0, headings |-> <<>>, changes |-> NoChanges]),
         LAMBDA acc :
        [normalized |-> acc.out \o Slice(text, acc.last_end, Len(text)),
         headings   |-> acc.headings,
         changes    |-> [acc.changes EXCEPT !.total_headings = Len(acc.headings)]]))

\* _dedupe_consecutive(headings): the 0-based indexes to remove; k is the
\* loop position (1-based), prev is (prev_title, prev_level), <<>> for None
RECURSIVE _dedupe_consecutive(_, _, _)
_dedupe_consecutive(headings, k, prev) ==
    IF k > Len(headings) THEN {}
    ELSE IF prev = <<headings[k].title, headings[k].level>>
    THEN {k - 1} \cup _dedupe_consecutive(headings, k + 1, prev)
    ELSE _dedupe_consecutive(headings, k + 1,
                             <<headings[k].title, headings[k].level>>)

\* the second loop (lines 128-142) from match k on, cur being cur_idx
RECURSIVE RebuildFrom(_, _, _, _, _)
RebuildFrom(normalized, ms, k, cur, remove_idx) ==
    IF k > Len(ms) THEN Slice(normalized, cur, Len(normalized))
    ELSE Call(Len(HLINE_RE(Slice(normalized, 0, ms[k].start))), LAMBDA idx :
         Call(RebuildFrom(normalized, ms, k + 1, ms[k].end, remove_idx), LAMBDA rest :
            Slice(normalized, cur, ms[k].start)
            \o (IF idx \in remove_idx THEN <<>> ELSE ms[k].group0 \o <<NL>>)
            \o rest))

\* lines 122-142
DedupePass(fp, opts) ==
    IF opts.remove_consecutive_duplicates /\ fp.headings # <<>>
    THEN Call(_dedupe_consecutive(fp.headings, 1, <<>>), LAMBDA remove_idx :
            IF remove_idx = {} THEN fp
            ELSE [fp EXCEPT
                    !.changes.deduped_headings = Cardinality(remove_idx),
                    !.normalized =
                        RebuildFrom(fp.normalized, HLINE_RE(fp.normalized), 1, 0,
                                    remove_idx)])
    ELSE fp

DIGITS == {"0", "1", "2", "3", "4", "5", "6", "7", "8", "9"}
DOT == "."

\* str(n) for n >= 0
RECURSIVE DecimalOf(_)
DecimalOf(n) ==
    IF n < 10 THEN <<<<"0", "1", "2", "3", "4", "5", "6", "7", "8", "9">>[n + 1]>>
    ELSE DecimalOf(n \div 10) \o DecimalOf(n % 10)

\* the number of digits in a row from offset i on
DigitRun(s, i) ==
    LET other == {x \in i..(Len(s) - 1) : s[x + 1] \notin DIGITS}
    IN  IF other = {} THEN Len(s) - i ELSE MinOf(other) - i

\* re.sub(r"^\d+(\.\d+)?\s+", "", title)
StripNumberPrefix(title) ==
    Call(DigitRun(title, 0), LAMBDA d1 :
    Call(IF d1 < Len(title) /\ title[d1 + 1] = DOT THEN DigitRun(title, d1 + 1) ELSE 0,
         LAMBDA d2 :
    Call(IF d2 >= 1 THEN d1 + 1 + d2 ELSE d1, LAMBDA e :
        IF d1 >= 1 /\ e < Len(title) /\ IsWs(title[e + 1])
        THEN Slice(title, WsEnd(title, e), Len(title))
        ELSE title)))

\* re.match(r"^(##{1,2})\s+(.+)$", ln): len(group(1)), 0 when no match
AutoMarks(ln) ==
    IF StartsWith(ln, <<HASH, HASH, HASH>>) /\ Len(ln) >= 5 /\ IsWs(ln[4]) THEN 3
    ELSE IF StartsWith(ln, <<HASH, HASH>>) /\ Len(ln) >= 4 /\ IsWs(ln[3]) THEN 2
    ELSE 0

\* the autonumbering loop (lines 149-166) from line i on: the rewritten
\* lines and the number of headings numbered
RECURSIVE AutonumberFrom(_, _, _, _)
AutonumberFrom(lines, i, h2_idx, h3_idx) ==
    IF i > Len(lines) THEN [lines |-> <<>>, count |-> 0]
    ELSE Call(AutoMarks(lines[i]), LAMBDA marks :
         Call(StripNumberPrefix(Strip(Slice(lines[i], marks, Len(lines[i])))),
              LAMBDA title_clean :
            IF marks = 2
            THEN Call(AutonumberFrom(lines, i + 1, h2_idx + 1, 0), LAMBDA r :
                    [lines |-> <<<<HASH, HASH, SP>> \o DecimalOf(h2_idx + 1)
                                 \o <<DOT, SP>> \o title_clean>> \o r.lines,
                     count |-> r.count + 1])
            ELSE IF marks = 3
            THEN Call(AutonumberFrom(lines, i + 1, h2_idx, h3_idx + 1), LAMBDA r :
                    [lines |-> <<<<HASH, HASH, HASH, SP>> \o DecimalOf(h2_idx)
                                 \o <<DOT>> \o DecimalOf(h3_idx + 1) \o <<SP>>
                                 \o title_clean>> \o r.lines,
                     count |-> r.count + 1])
            ELSE Call(AutonumberFrom(lines, i + 1, h2_idx, h3_idx), LAMBDA r :
                    [lines |-> <<lines[i]>> \o r.lines, count |-> r.count])))

\* lines 144-167
AutonumberPass(dp, opts) ==
    IF opts.autonumber /\ dp.changes.total_headings > 0
    THEN Call(AutonumberFrom(SplitLines(dp.normalized), 1, 0, 0), LAMBDA r :
            [dp EXCEPT !.normalized = JoinLines(r.lines) \o <<NL>>,
                       !.changes.autonumbered = r.count])
    ELSE dp

\* normalize_headings(article_md, **opts): {"normalized", "changes"}
normalize_headings(article_md, opts) ==
    Call(FirstPass(article_md, opts), LAMBDA fp :
    Call(DedupePass(fp, opts), LAMBDA dp :
    Call(AutonumberPass(dp, opts), LAMBDA ap :
        [normalized |-> ap.normalized, changes |-> ap.changes])))

----------------------------------------------------------------------------
(* normalize_headings applied to a document, and again to its result       *)

MaxHeadLines == 4

\* lines of a document: headings of levels 1, 4 and 2, a heading whose title
\* ends in punctuation, one whose title is punctuation only, a text line
HeadLineSet ==
    {<<HASH, SP, "a">>, <<HASH, HASH, HASH, HASH, SP, "b">>, H2Line(<<"a">>),
     H2Line(<<"a", DOT>>), H2Line(<<DOT>>), <<"x">>}

NhDocs == TextsOf(HeadLineSet, MaxHeadLines)

\* the defaults of normalize_headings' keyword arguments (lines 48-54)
NhDefaults ==
    [h1_to_h2 |-> TRUE, h4plus_to_h3 |-> TRUE, unify_space_after_hash |-> TRUE,
     trim_trailing_punct |-> TRUE, collapse_spaces |-> TRUE,
     remove_consecutive_duplicates |-> TRUE, autonumber |-> FALSE]

NhOptionSets ==
    {NhDefaults,
     [NhDefaults EXCEPT !.autonumber = TRUE],
     [NhDefaults EXCEPT !.remove_consecutive_duplicates = FALSE],
     [NhDefaults EXCEPT !.h1_to_h2 = FALSE, !.trim_trailing_punct = FALSE,
                        !.unify_space_after_hash = FALSE]}

NhInit ==
    /\ pc = "nh_in"
    /\ nh_doc \in NhDocs
    /\ nh_opts \in NhOptionSets
    /\ nh_first = <<>> /\ nh_second = <<>>
    /\ GenIdle /\ StIdle /\ SdIdle /\ QcIdle /\ ClIdle /\ EfIdle /\ RestIdle

\* a caller normalizes the document
NormalizeOnce ==
    /\ pc = "nh_in"
    /\ pc' = "nh_once"
    /\ nh_first' = normalize_headings(nh_doc, nh_opts)
    /\ UNCHANGED <<nh_doc, nh_opts, nh_second>>
    /\ UNCHANGED notNhVars

\* ... and normalizes the result again with the same options
NormalizeAgain ==
    /\ pc = "nh_once"
    /\ pc' = "nh_twice"
    /\ nh_second' = normalize_headings(nh_first.normalized, nh_opts)
    /\ UNCHANGED <<nh_doc, nh_opts, nh_first>>
    /\ UNCHANGED notNhVars

NhNext == NormalizeOnce \/ NormalizeAgain

SpecHeadings == NhInit /\ [][NhNext]_vars

----------------------------------------------------------------------------
(* Properties of normalize_headings                                        *)

\* C11: normalize_headings is idempotent for fixed options: normalizing the
\* already-normalized text returns exactly the text of the first
\* normalization, also when the first pass removed duplicate headings.
C11_NormalizeIdempotent ==
    pc = "nh_twice" => nh_second.normalized = nh_first.normalized

\* the (level, title) pairs of the lines of a text that begin with "#"
RECURSIVE HeadingLinesOf(_)
HeadingLinesOf(lines) ==
    IF lines = <<>> THEN <<>>
    ELSE (IF StartsWith(lines[1], <<HASH>>)
          THEN <<[level |-> HashRun(lines[1], 0),
                  title |-> Strip(Slice(lines[1], HashRun(lines[1], 0), Len(lines[1])))]>>
          ELSE <<>>)
         \o HeadingLinesOf(Tail(lines))

\* a heading sequence without the headings that repeat the one before them
RECURSIVE DropRepeats(_)
DropRepeats(hs) ==
    IF Len(hs) <= 1 THEN hs
    ELSE IF hs[1] = hs[2] THEN DropRepeats(Tail(hs))
    ELSE <<hs[1]>> \o DropRepeats(Tail(hs))

\* C12: level coercion and title cleanup are applied before duplicate
\* detection: with h1_to_h2, h4plus_to_h3 and dedupe enabled the headings of
\* the result are the coerced and cleaned headings of the document without
\* those that repeat the (title, level) of the heading before them, and
\* deduped_headings counts the headings dropped.
C12_CoerceCleanThenDedupe ==
    (/\ pc = "nh_once"
     /\ nh_opts.h1_to_h2 /\ nh_opts.h4plus_to_h3
     /\ nh_opts.remove_consecutive_duplicates /\ ~nh_opts.autonumber)
    => LET cleaned == FirstPass(nh_doc, nh_opts).headings
       IN  /\ HeadingLinesOf(SplitLines(nh_first.normalized)) = DropRepeats(cleaned)
           /\ nh_first.changes.deduped_headings = Len(cleaned) - Len(DropRepeats(cleaned))

----------------------------------------------------------------------------
(* utils/style_diversity.py                                                *)
(* Texts are sequences of characters; similarities and ratios, which the   *)
(* code rounds to four decimals, are integers counting ten-thousandths.    *)

\* the letters TOKEN_RE accepts, in the model's alphabet
LETTERS == {"a", "b", "c", "d"}

\* [.!\n]+ of _sentences and the punctuation class of _punct_density
SENT_SEPS == {".", "!", NL}
DENSITY_PUNCT == {",", ".", ":", "!", "-"}

\* round(x, 4) and round(x, 2) of n / d as a count of ten-thousandths /
\* hundredths (an exact half needs d >= 32, resp. d >= 8)
SCALE4 == 10000
SCALE2 == 100
RoundTo(scale, n, d) == (2 * scale * n + d) \div (2 * d)

\* least offset >= p at which no letter stands
RECURSIVE LetterRunEnd(_, _)
LetterRunEnd(s, p) ==
    IF p < Len(s) /\ s[p + 1] \in LETTERS THEN LetterRunEnd(s, p + 1) ELSE p

\* _normalize(text): TOKEN_RE.findall, the maximal runs of letters
RECURSIVE NormalizeFrom(_, _)
NormalizeFrom(s, p) ==
    IF p >= Len(s) THEN <<>>
    ELSE IF s[p + 1] \in LETTERS
         THEN Call(LetterRunEnd(s, p), LAMBDA e :
                  <<Slice(s, p, e)>> \o NormalizeFrom(s, e))
         ELSE NormalizeFrom(s, p + 1)

_normalize(text) == NormalizeFrom(text, 0)

\* least offset >= p at which a sentence separator stands, else len(s)
RECURSIVE SentEnd(_, _)
SentEnd(s, p) ==
    IF p < Len(s) /\ s[p + 1] \notin SENT_SEPS THEN SentEnd(s, p + 1) ELSE p

\* _sentences(text): the stripped, non-empty pieces between separators
RECURSIVE SentencesFrom(_, _)
SentencesFrom(s, p) ==
    IF p >= Len(s) THEN <<>>
    ELSE Call(SentEnd(s, p), LAMBDA e :
             (IF Strip(Slice(s, p, e)) # <<>> THEN <<Strip(Slice(s, p, e))>> ELSE <<>>)
             \o SentencesFrom(s, e + 1))

_sentences(text) == SentencesFrom(text, 0)

_punct_density(text) ==
    IF text = <<>> THEN 0
    ELSE RoundTo(SCALE4, Cardinality({i \in 1..Len(text) : text[i] \in DENSITY_PUNCT}),
                 Len(text))

RangeOf(f) == {f[i] : i \in DOMAIN f}

_ttr(tokens) ==
    IF tokens = <<>> THEN 0
    ELSE RoundTo(SCALE4, Cardinality(RangeOf(tokens)), Len(tokens))

_make_ngrams(tokens, n) ==
    IF Len(tokens) < n THEN <<>>
    ELSE [i \in 1..(Len(tokens) - n + 1) |-> SubSeq(tokens, i, i + n - 1)]

\* a similarity that divides by the first document's n-grams only
jaccard_OverFirst(a, b) ==
    IF RangeOf(a) = {} /\ RangeOf(b) = {} THEN 0
    ELSE RoundTo(SCALE4, Cardinality(RangeOf(a) \cap RangeOf(b)),
                 MaxOf({1, Cardinality(RangeOf(a))}))

jaccard(a, b) ==
    IF RangeOf(a) = {} /\ RangeOf(b) = {} THEN 0
    ELSE RoundTo(SCALE4, Cardinality(RangeOf(a) \cap RangeOf(b)),
                 MaxOf({1, Cardinality(RangeOf(a) \cup RangeOf(b))}))

\* parse_corpus on the '---' parts of corpus_raw: the first line of a part
\* is the title, the rest the content; parts without content are left out
RECURSIVE parse_corpus(_)
parse_corpus(parts) ==
    IF parts = <<>> THEN <<>>
    ELSE Call(SplitLines(Strip(parts[1])), LAMBDA lines :
             (IF lines # <<>> /\ Strip(JoinLines(Tail(lines))) # <<>>
              THEN <<[title |-> Strip(lines[1]),
                      content |-> Strip(JoinLines(Tail(lines)))]>>
              ELSE <<>>)
             \o parse_corpus(Tail(parts)))

\* list.sort(key=lambda x: -x["similarity"]): stable, descending similarity
InsertBySimilarity(sorted, p) ==
    LET k == Cardinality({i \in 1..Len(sorted) : sorted[i].similarity >= p.similarity})
    IN  SubSeq(sorted, 1, k) \o <<p>> \o SubSeq(sorted, k + 1, Len(sorted))

RECURSIVE SortBySimilarity(_)
SortBySimilarity(pairs) ==
    IF pairs = <<>> THEN <<>>
    ELSE InsertBySimilarity(SortBySimilarity(SubSeq(pairs, 1, Len(pairs) - 1)),
                            pairs[Len(pairs)])

\* sims of lines 115-124: the similarity of each corpus document, in order
SimsOf(cur_3grams, corpus) ==
    [i \in 1..Len(corpus) |-> jaccard(cur_3grams, _make_ngrams(_normalize(corpus[i].content), 3))]

RECURSIVE SumOf(_)
SumOf(q) == IF q = <<>> THEN 0 ELSE q[1] + SumOf(Tail(q))

\* round(mean(sims), 4): an exact half falls to either side, as the binary
\* floating-point value of the mean decides
AvgSimilarities(sims) ==
    IF sims = <<>> THEN {0}
    ELSE IF (2 * SumOf(sims)) % (2 * Len(sims)) = Len(sims)
         THEN {SumOf(sims) \div Len(sims), SumOf(sims) \div Len(sims) + 1}
         ELSE {RoundTo(1, SumOf(sims), Len(sims))}

\* thresholds of lines 147-151 and 155, in ten-thousandths, and of 174, 178
SIM_HIGH == 3500
SIM_MEDIUM == 2500
SIM_LOW == 1800
TTR_LOW == 2500
SENT_LEN_MIN == 800
PUNCT_DENSITY_MIN == 30

RiskPoints(max_sim, ttr) ==
    (IF max_sim >= SIM_HIGH THEN 3
     ELSE IF max_sim >= SIM_MEDIUM THEN 2
     ELSE IF max_sim >= SIM_LOW THEN 1 ELSE 0)
    + (IF ttr < TTR_LOW THEN 1 ELSE 0)

\* a bucketing that calls three points high
RiskLevel_HighAtThree(points) ==
    IF points >= 3 THEN "high" ELSE IF points >= 2 THEN "medium" ELSE "low"

RiskLevel(points) ==
    IF points >= 4 THEN "high" ELSE IF points >= 2 THEN "medium" ELSE "low"

Suggestions(max_sim, ttr, avg_sent_len, pden) ==
    (IF max_sim >= SIM_MEDIUM THEN <<"rephrase_similar">> ELSE <<>>)
    \o (IF ttr < TTR_LOW THEN <<"vary_vocabulary">> ELSE <<>>)
    \o (IF avg_sent_len < SENT_LEN_MIN THEN <<"longer_sentences">> ELSE <<>>)
    \o (IF pden < PUNCT_DENSITY_MIN THEN <<"vary_punctuation">> ELSE <<>>)

\* style_metrics of lines 131-142
StyleMetrics(current_article) ==
    Call(_sentences(current_article), LAMBDA sents :
    Call(_normalize(current_article), LAMBDA cur_tokens :
        [avg_sentence_length_tokens |->
             IF sents = <<>> THEN 0
             ELSE RoundTo(SCALE2, SumOf([i \in 1..Len(sents) |-> Len(_normalize(sents[i]))]),
                          Len(sents)),
         type_token_ratio |-> _ttr(cur_tokens),
         punctuation_density |-> _punct_density(current_article),
         sentences_count |-> Len(sents),
         tokens_count |-> Len(cur_tokens)]))

NoMetrics == <<>>

\* the report before the corpus is looked at (lines 93-104)
EmptyReport ==
    [corpus_size |-> 0, top_similar |-> <<>>, avg_similarity |-> 0,
     style_metrics |-> NoMetrics, risk_level |-> "low", suggestions |-> <<>>]

\* the reports style_diversity_report can return, given the sims it computed
ReportOf(current_article, corpus, sims, top_k, avg) ==
    Call(SortBySimilarity([i \in 1..Len(corpus) |->
             [title |-> corpus[i].title, similarity |-> sims[i]]]), LAMBDA pairs :
    Call(StyleMetrics(current_article), LAMBDA m :
        [corpus_size |-> Len(corpus),
         top_similar |-> SubSeq(pairs, 1, MinOf({top_k, Len(pairs)})),
         avg_similarity |-> avg,
         style_metrics |-> m,
         risk_level |-> RiskLevel(RiskPoints(pairs[1].similarity, m.type_token_ratio)),
         suggestions |-> Suggestions(pairs[1].similarity, m.type_token_ratio,
                                     m.avg_sentence_length_tokens,
                                     m.punctuation_density)]))

\* words separated by single spaces
RECURSIVE SpJoin(_)
SpJoin(ws) ==
    IF ws = <<>> THEN <<>>
    ELSE IF Len(ws) = 1 THEN <<ws[1]>>
    ELSE <<ws[1], SP>> \o SpJoin(Tail(ws))

MaxCorpus == 2
MaxTopK == 2

\* articles: empty, too short for a 3-gram, sharing all, some or no 3-grams,
\* one word repeated, two sentences
SdTexts ==
    {<<>>, SpJoin(<<"a", "b">>), SpJoin(<<"a", "b", "c">>),
     SpJoin(<<"b", "c", "d">>), SpJoin(<<"a", "b", "c", "d">>),
     SpJoin(<<"b", "c", "d", "a">>), SpJoin(<<"a", "a", "a", "a", "a">>),
     SpJoin(<<"a", "b", "c">>) \o <<DOT, SP>> \o SpJoin(<<"a", "b", "c">>)}

\* the parts of a corpus: a title line and a content, or a title alone; the
\* last two contents share the only 3-gram of a one-word article and one
\* 3-gram in five with a three-word one
SdParts ==
    {<<t, NL>> \o c : t \in {"a", "b"},
                      c \in {SpJoin(<<"a", "b">>), SpJoin(<<"a", "b", "c">>),
                             SpJoin(<<"a", "b", "c", "d">>)}}
    \cup {<<"c">>}
    \cup {<<"a", NL>> \o SpJoin(<<"a", "a", "a">>),
          <<"a", NL>> \o SpJoin(<<"a", "b", "c", "d", "a", "a", "b">>)}

SdCorpora == UNION {[1..k -> SdParts] : k \in 0..MaxCorpus}

SdInit ==
    /\ pc = "sd_in"
    /\ sd_cur \in SdTexts
    /\ sd_corpus \in SdCorpora
    /\ sd_topk \in 1..MaxTopK
    /\ sd_sims = <<>> /\ sd_report = <<>>
    /\ GenIdle /\ StIdle /\ NhIdle /\ QcIdle /\ ClIdle /\ EfIdle /\ RestIdle

\* style_diversity_report with a corpus that holds no document
ReportEmptyCorpus ==
    /\ pc = "sd_in"
    /\ parse_corpus(sd_corpus) = <<>>
    /\ pc' = "sd_done"
    /\ sd_report' = EmptyReport
    /\ UNCHANGED <<sd_cur, sd_corpus, sd_topk, sd_sims>>
    /\ UNCHANGED notSdVars

\* style_diversity_report with a corpus of at least one document
ReportCorpus ==
    /\ pc = "sd_in"
    /\ parse_corpus(sd_corpus) # <<>>
    /\ pc' = "sd_done"
    /\ sd_sims' = SimsOf(_make_ngrams(_normalize(sd_cur), 3), parse_corpus(sd_corpus))
    /\ \E avg \in AvgSimilarities(sd_sims') :
           sd_report' = ReportOf(sd_cur, parse_corpus(sd_corpus), sd_sims', sd_topk, avg)
    /\ UNCHANGED <<sd_cur, sd_corpus, sd_topk>>
    /\ UNCHANGED notSdVars

SdNext == ReportEmptyCorpus \/ ReportCorpus

SpecStyle == SdInit /\ [][SdNext]_vars

----------------------------------------------------------------------------
(* Properties of the style diversity report                                *)

GramsOf(text) == _make_ngrams(_normalize(text), 3)

\* C13 (as stated): jaccard is symmetric, is exactly 1.0 when the candidate
\* is an identical copy of a corpus document, and is 0.0 when the two
\* documents share no 3-gram.
C13_JaccardAnyCopy ==
    pc = "sd_done" =>
        \A i \in 1..Len(sd_sims) :
            LET content == parse_corpus(sd_corpus)[i].content
            IN  /\ sd_sims[i] = jaccard(GramsOf(content), GramsOf(sd_cur))
                /\ content = sd_cur => sd_sims[i] = SCALE4
                /\ RangeOf(GramsOf(content)) \cap RangeOf(GramsOf(sd_cur)) = {}
                       => sd_sims[i] = 0

\* C13 (amended): jaccard is symmetric, is exactly 1.0 when the candidate is
\* an identical copy of a corpus document that has at least three tokens,
\* and is 0.0 when the two documents share no 3-gram.
C13_JaccardCopyWithGrams ==
    pc = "sd_done" =>
        \A i \in 1..Len(sd_sims) :
            LET content == parse_corpus(sd_corpus)[i].content
            IN  /\ sd_sims[i] = jaccard(GramsOf(content), GramsOf(sd_cur))
                /\ (content = sd_cur /\ Len(_normalize(sd_cur)) >= 3)
                       => sd_sims[i] = SCALE4
                /\ RangeOf(GramsOf(content)) \cap RangeOf(GramsOf(sd_cur)) = {}
                       => sd_sims[i] = 0

\* a report over a copy of the article, a document sharing some of its
\* 3-grams, and the similarities 1.0 and 0.5 computed for them
C13_Witness ==
    /\ pc = "sd_done"
    /\ Len(sd_sims) = 2
    /\ parse_corpus(sd_corpus)[1].content = sd_cur
    /\ sd_sims[1] = SCALE4
    /\ sd_sims[2] \notin {0, SCALE4}

TitleRank(c) == CHOOSE k \in 1..4 : <<"a", "b", "c", "d">>[k] = c

\* t <= u for titles (one character each in the corpora of the model)
TitleLeq(t, u) == TitleRank(t[1]) <= TitleRank(u[1])

\* C14: top_similar has at most top_k entries, in descending similarity,
\* ties in title-ascending order, whatever the order of the corpus.
C14_TopSimilarOrdered ==
    (pc = "sd_done" /\ sd_report.corpus_size > 0) =>
        /\ Len(sd_report.top_similar) <= sd_topk
        /\ \A i \in 1..Len(sd_report.top_similar) :
             \A j \in (i + 1)..Len(sd_report.top_similar) :
                /\ sd_report.top_similar[i].similarity
                       >= sd_report.top_similar[j].similarity
                /\ sd_report.top_similar[i].similarity
                       = sd_report.top_similar[j].similarity
                   => TitleLeq(sd_report.top_similar[i].title,
                               sd_report.top_similar[j].title)

----------------------------------------------------------------------------
(* utils/quality_checks.py                                                 *)
(* The Arabic phrases the code's patterns look for are atoms of the text:  *)
(* a section key stands for the title its SEC_TITLES pattern matches,      *)
(* "DISCLAIMER" for a phrase of DISCLAIMER_PATTERNS, "PRO_CLAIM" for one   *)
(* of PRO_CLAIMS_FORBIDDEN, "CERTAIN" for a word of CERTAINTY_PATTERNS,    *)
(* "FILLER" for a line opening of FILLER_PATTERNS, "MAYBE" for a word of   *)
(* PROBABILITY_LEXICON (the title of "why" holds one too), "Q" and "A" for *)
(* the bold question and answer marks, "REVIEW" for the needs-human-review *)
(* tag and "IBN" for a heritage author named without chapter.              *)

SCENARIOS_RANGE == <<3, 5>>
FAQ_RANGE == <<3, 6>>
SOURCES_RANGE == <<3, 6>>

\* required_keys and optional_keys of lines 202 and 208, in their order
REQUIRED_KEYS == <<"intro", "why", "outro">>
OPTIONAL_KEYS == <<"not_applicable", "scenarios", "faq", "comparison",
                   "methodology", "sources", "editor_note">>
SEC_TITLES == RangeOf(REQUIRED_KEYS) \cup RangeOf(OPTIONAL_KEYS)

\* number of [A-Za-z؀-ۿ]+ matches inside one atom
QcWordsIn(tok) ==
    CASE tok \in {"intro", "outro", "CERTAIN", "MAYBE", "Q", "A", "w"} -> 1
      [] tok \in {"scenarios", "faq", "comparison", "methodology", "sources",
                  "editor_note", "DISCLAIMER", "PRO_CLAIM", "IBN"} -> 2
      [] tok \in {"FILLER", "REVIEW"} -> 3
      [] tok \in {"why", "not_applicable"} -> 4
      [] OTHER -> 0

_count_words(md) == SumOf([i \in 1..Len(md) |-> QcWordsIn(md[i])])

\* number of atoms of md that lie in toks
CountIn(md, toks) == Cardinality({i \in 1..Len(md) : md[i] \in toks})

\* offsets at which a line of md begins ('^' under re.MULTILINE)
LineStarts(md) == {0} \cup {i \in 1..Len(md) : md[i] = NL}

\* len(re.findall(r"(?m)^#{n}\s+", md))
CountHeadingMarks(md, n) ==
    Cardinality({p \in LineStarts(md) :
        /\ p + n < Len(md)
        /\ Slice(md, p, p + n) = Hashes(n)
        /\ IsWs(md[p + n + 1])})

\* _count_hits(FILLER_PATTERNS, md): the filler openings at a line start,
\* followed by a space
FillerHits(md) ==
    Cardinality({p \in LineStarts(md) :
        p + 1 < Len(md) /\ md[p + 1] = "FILLER" /\ md[p + 2] = SP})

\* _find_sections(md): (stripped line, line index) of the lines whose
\* stripped text starts with "## "
RECURSIVE FindSectionsFrom(_, _)
FindSectionsFrom(lines, i) ==
    IF i > Len(lines) THEN <<>>
    ELSE (IF StartsWith(Strip(lines[i]), <<HASH, HASH, SP>>)
          THEN <<[line |-> Strip(lines[i]), i |-> i]>> ELSE <<>>)
         \o FindSectionsFrom(lines, i + 1)

\* re.search(r"^##\s*<title of key>", line)
TitleMatches(line, key) ==
    /\ StartsWith(line, <<HASH, HASH>>)
    /\ WsEnd(line, 2) < Len(line)
    /\ line[WsEnd(line, 2) + 1] = key

\* _section_block(md, start_idx), start being the 1-based line number
_section_block(lines, sections, start) ==
    LET later == {sections[k].i : k \in 1..Len(sections)} \cap ((start + 1)..Len(lines))
        end == IF later = {} THEN Len(lines) ELSE MinOf(later) - 1
    IN  Strip(JoinLines(SubSeq(lines, start, end)))

\* _analyze_structure(md): per key, the block of the first section whose
\* title matches, "" (and present False) when there is none
_analyze_structure(md) ==
    Call(SplitLines(md), LAMBDA lines :
    Call(FindSectionsFrom(lines, 1), LAMBDA sections :
        [key \in SEC_TITLES |->
            LET hits == {k \in 1..Len(sections) : TitleMatches(sections[k].line, key)}
            IN  IF hits = {} THEN [present |-> FALSE, block |-> <<>>]
                ELSE [present |-> TRUE,
                      block |-> _section_block(lines, sections, sections[MinOf(hits)].i)]]))

\* _strip_md_bullets(block): the stripped lines that start with "- "
RECURSIVE BulletsOf(_)
BulletsOf(lines) ==
    IF lines = <<>> THEN <<>>
    ELSE (IF StartsWith(Strip(lines[1]), <<"-", SP>>) THEN <<Strip(lines[1])>> ELSE <<>>)
         \o BulletsOf(Tail(lines))

_strip_md_bullets(block) == BulletsOf(SplitLines(block))

_count_scenarios(block) == Len(_strip_md_bullets(block))

\* min of the lines that begin with the question mark and with the answer mark
_count_faq(block) ==
    LET lines == SplitLines(block)
    IN  MinOf({Cardinality({i \in 1..Len(lines) : StartsWith(lines[i], <<"Q">>)}),
               Cardinality({i \in 1..Len(lines) : StartsWith(lines[i], <<"A">>)})})

\* _count_sources(block): (total, flagged)
_count_sources(block) ==
    LET items == _strip_md_bullets(block)
    IN  [total |-> Len(items),
         flagged |-> SumOf([i \in 1..Len(items) |->
                        B2N("REVIEW" \in RangeOf(items[i]))
                        + B2N("IBN" \in RangeOf(items[i]))])]

\* the keys of keys that are not present, in the order of keys
RECURSIVE MissingOf(_, _)
MissingOf(keys, structure) ==
    IF keys = <<>> THEN <<>>
    ELSE (IF structure[keys[1]].present THEN <<>> ELSE <<keys[1]>>)
         \o MissingOf(Tail(keys), structure)

InRange(n, range) == range[1] <= n /\ n <= range[2]

\* a risk score that adds one point for every rule
RiskScore_FlatWeights(m, sources_present) ==
    B2N(~m.disclaimer_present)
    + B2N(m.forbidden_claims)
    + B2N(sources_present /\ (m.sources_count < SOURCES_RANGE[1] \/ m.sources_flagged > 0))
    + B2N(m.certainty_hits >= 2)
    + B2N(m.filler_hits >= 2)
    + B2N(RangeOf(REQUIRED_KEYS) \cap RangeOf(m.missing_sections) # {})
    + B2N(Len(m.missing_sections) >= 4)

\* risk_score of lines 228-248
RiskScore(m, sources_present) ==
    3 * B2N(~m.disclaimer_present)
    + 2 * B2N(m.forbidden_claims)
    + B2N(sources_present /\ (m.sources_count < SOURCES_RANGE[1] \/ m.sources_flagged > 0))
    + B2N(m.certainty_hits >= 2)
    + B2N(m.filler_hits >= 2)
    + 2 * B2N(RangeOf(REQUIRED_KEYS) \cap RangeOf(m.missing_sections) # {})
    + B2N(Len(m.missing_sections) >= 4)

\* risk_level of lines 250-255
QcRiskLevel(risk_score) ==
    IF risk_score >= 5 THEN "high" ELSE IF risk_score >= 3 THEN "medium" ELSE "low"

\* actions of lines 258-302; each string is named after what it asks for
SuggestedActions(m) ==
    LET missing == RangeOf(m.missing_sections)
        one(c, a) == IF c THEN <<a>> ELSE <<>>
    IN  one(~m.disclaimer_present, "add_disclaimer")
        \o one(m.forbidden_claims, "remove_pro_claims")
        \o one("not_applicable" \in missing, "add_not_applicable")
        \o one("methodology" \in missing, "add_methodology")
        \o (IF "sources" \in missing THEN <<"add_sources">>
            ELSE one(m.sources_count < SOURCES_RANGE[1], "raise_sources")
                 \o one(m.sources_count > SOURCES_RANGE[2], "lower_sources")
                 \o one(m.sources_flagged > 0, "review_flagged_sources"))
        \o (IF "scenarios" \in missing THEN <<"add_scenarios">>
            ELSE one(~InRange(m.scenarios_count, SCENARIOS_RANGE), "fix_scenarios"))
        \o (IF "faq" \in missing THEN <<"add_faq">>
            ELSE one(~InRange(m.faq_count, FAQ_RANGE), "fix_faq"))
        \o one("comparison" \in missing, "add_comparison")
        \o one("editor_note" \in missing, "add_editor_note")
        \o one(m.certainty_hits >= 2, "reduce_certainty")
        \o one(m.filler_hits >= 2, "remove_filler")

\* range_warnings of lines 214-225
RangeWarnings(structure, scenarios_count, faq_count, sources_count) ==
    (IF structure["scenarios"].present /\ ~InRange(scenarios_count, SCENARIOS_RANGE)
     THEN <<"scenarios">> ELSE <<>>)
    \o (IF structure["faq"].present /\ ~InRange(faq_count, FAQ_RANGE)
        THEN <<"faq">> ELSE <<>>)
    \o (IF structure["sources"].present /\ ~InRange(sources_count, SOURCES_RANGE)
        THEN <<"sources">> ELSE <<>>)

\* a disclaimer that is looked for in the whole document
outro_block_WholeDocument(md, structure) == md

\* line 185: the disclaimer is looked for in the block of the outro section
outro_block(md, structure) == structure["outro"].block

\* the metrics of lines 174-225 and 305
QcMetrics(md, structure) ==
    Call(_count_sources(structure["sources"].block), LAMBDA src :
    Call(_count_scenarios(structure["scenarios"].block), LAMBDA scenarios_count :
    Call(_count_faq(structure["faq"].block), LAMBDA faq_count :
        [words |-> _count_words(md),
         h2_count |-> CountHeadingMarks(md, 2),
         h3_count |-> CountHeadingMarks(md, 3),
         certainty_hits |-> CountIn(md, {"CERTAIN"}),
         filler_hits |-> FillerHits(md),
         probability_lexicon_hits |-> CountIn(md, {"MAYBE", "why"}),
         disclaimer_present |-> "DISCLAIMER" \in RangeOf(outro_block(md, structure)),
         missing_sections |-> MissingOf(REQUIRED_KEYS, structure)
                              \o MissingOf(OPTIONAL_KEYS, structure),
         paa_signals |-> IF structure["faq"].present /\ InRange(faq_count, FAQ_RANGE)
                         THEN "strong" ELSE "weak",
         scenarios_count |-> scenarios_count,
         faq_count |-> faq_count,
         sources_count |-> src.total,
         sources_flagged |-> src.flagged,
         methodology_present |-> structure["methodology"].present,
         not_applicable_present |-> structure["not_applicable"].present,
         comparison_present |-> structure["comparison"].present,
         editor_note_present |-> structure["editor_note"].present,
         forbidden_claims |-> "PRO_CLAIM" \in RangeOf(structure["editor_note"].block),
         range_warnings |-> RangeWarnings(structure, scenarios_count, faq_count,
                                          src.total)])))

run_quality_report(article_markdown) ==
    Call(_analyze_structure(article_markdown), LAMBDA structure :
    Call(QcMetrics(article_markdown, structure), LAMBDA m :
        [risk_level |-> QcRiskLevel(RiskScore(m, structure["sources"].present)),
         metrics |-> m,
         suggested_actions |-> SuggestedActions(m)]))

\* n copies of a line
RECURSIVE Repeat(_, _)
Repeat(line, n) == IF n <= 0 THEN <<>> ELSE <<line>> \o Repeat(line, n - 1)

\* n question and answer pairs
RECURSIVE FaqPairs(_)
FaqPairs(n) ==
    IF n <= 0 THEN <<>> ELSE <<<<"Q", SP, "w">>, <<"A", SP, "w">>>> \o FaqPairs(n - 1)

\* the lines of a section: its heading and its body lines, none when absent
SectionLines(present, key, lines) ==
    IF present THEN <<H2Line(<<key>>)>> \o lines ELSE <<>>

MaxCertainty == 2

\* how an article may be put together: which sections it has and what they
\* hold; a count of -1 means that the section is absent, and an outro
\* "elsewhere" that there is no outro section and the disclaimer stands in
\* the text before the first heading
QcShapes ==
    [intro : BOOLEAN, why : BOOLEAN, extras : BOOLEAN,
     outro : {"absent", "elsewhere", "plain", "disclaimer"},
     editor_note : {"absent", "plain", "pro_claim"},
     scenarios : {-1, 3, 6},
     faq : {-1, 1, 3},
     sources : {[n |-> -1, tag |-> "w"], [n |-> 2, tag |-> "w"], [n |-> 3, tag |-> "w"],
                [n |-> 3, tag |-> "REVIEW"], [n |-> 7, tag |-> "w"]},
     certainty : 0..MaxCertainty,
     filler : {0, 2}]

QcDoc(c) ==
    JoinLines(
        Repeat(<<"CERTAIN", SP, "w">>, c.certainty)
        \o Repeat(<<"FILLER", SP, "w">>, c.filler)
        \o Repeat(<<"DISCLAIMER">>, B2N(c.outro = "elsewhere"))
        \o SectionLines(c.intro, "intro", <<<<"w">>>>)
        \o SectionLines(c.why, "why", <<<<"MAYBE", SP, "w">>>>)
        \o SectionLines(c.extras, "not_applicable", <<<<"-", SP, "w">>>>)
        \o SectionLines(c.scenarios >= 0, "scenarios",
                        Repeat(<<"-", SP, "w">>, c.scenarios))
        \o SectionLines(c.faq >= 0, "faq", FaqPairs(c.faq))
        \o SectionLines(c.extras, "comparison", <<<<"w">>>>)
        \o SectionLines(c.extras, "methodology", <<<<"w">>>>)
        \o SectionLines(c.sources.n >= 0, "sources",
                        <<<<"-", SP, c.sources.tag>>>>
                        \o Repeat(<<"-", SP, "w">>, c.sources.n - 1))
        \o SectionLines(c.editor_note # "absent", "editor_note",
                        <<IF c.editor_note = "pro_claim" THEN <<"PRO_CLAIM">> ELSE <<"w">>>>)
        \o SectionLines(c.outro \in {"plain", "disclaimer"}, "outro",
                        <<IF c.outro = "disclaimer" THEN <<"DISCLAIMER">> ELSE <<"w">>>>))

QcDocs == {QcDoc(c) : c \in QcShapes}

QcInit ==
    /\ pc = "qc_in"
    /\ qc_doc \in QcDocs
    /\ qc_report = <<>>
    /\ GenIdle /\ StIdle /\ NhIdle /\ SdIdle /\ ClIdle /\ EfIdle /\ RestIdle

QualityReport ==
    /\ pc = "qc_in"
    /\ pc' = "qc_done"
    /\ qc_report' = run_quality_report(qc_doc)
    /\ UNCHANGED qc_doc
    /\ UNCHANGED notQcVars

QcNext == QualityReport

SpecQuality == QcInit /\ [][QcNext]_vars

----------------------------------------------------------------------------
(* Properties of the quality report                                        *)

QcRules ==
    {<<"risk", k>> : k \in {"disclaimer", "pro_claim", "certainty", "filler",
                            "required_section", "sources_low", "sources_flagged"}}
    \cup {<<"range", k>> : k \in {"sources", "scenarios", "faq"}}
    \cup {<<"missing", k>> : k \in SEC_TITLES}

Triggered(rule, m) ==
    LET missing == RangeOf(m.missing_sections)
        k == rule[2]
    IN  CASE rule[1] = "missing" -> k \in missing
          [] rule[1] = "range" ->
                 /\ k \notin missing
                 /\ \/ k = "sources" /\ ~InRange(m.sources_count, <<3, 6>>)
                    \/ k = "scenarios" /\ ~InRange(m.scenarios_count, <<3, 5>>)
                    \/ k = "faq" /\ ~InRange(m.faq_count, <<3, 6>>)
          [] OTHER ->
                 \/ k = "disclaimer" /\ ~m.disclaimer_present
                 \/ k = "pro_claim" /\ m.forbidden_claims
                 \/ k = "certainty" /\ m.certainty_hits >= 2
                 \/ k = "filler" /\ m.filler_hits >= 2
                 \/ k = "required_section" /\ missing \cap RangeOf(REQUIRED_KEYS) # {}
                 \/ k = "sources_low" /\ "sources" \notin missing /\ m.sources_count < 3
                 \/ k = "sources_flagged" /\ "sources" \notin missing
                                          /\ m.sources_flagged > 0

\* the remediation strings that answer a rule
AnswersTo(rule) ==
    LET k == rule[2]
    IN  CASE rule[1] = "missing" ->
                 {CASE k = "intro" -> "add_intro"
                    [] k = "why" -> "add_why"
                    [] k = "outro" -> "add_outro"
                    [] k = "not_applicable" -> "add_not_applicable"
                    [] k = "scenarios" -> "add_scenarios"
                    [] k = "faq" -> "add_faq"
                    [] k = "comparison" -> "add_comparison"
                    [] k = "methodology" -> "add_methodology"
                    [] k = "sources" -> "add_sources"
                    [] OTHER -> "add_editor_note"}
          [] rule[1] = "range" ->
                 (CASE k = "sources" -> {"raise_sources", "lower_sources"}
                    [] k = "scenarios" -> {"fix_scenarios"}
                    [] OTHER -> {"fix_faq"})
          [] OTHER ->
                 (CASE k = "disclaimer" -> {"add_disclaimer"}
                    [] k = "pro_claim" -> {"remove_pro_claims"}
                    [] k = "certainty" -> {"reduce_certainty"}
                    [] k = "filler" -> {"remove_filler"}
                    [] k = "required_section" -> {"add_intro", "add_why", "add_outro"}
                    [] k = "sources_low" -> {"raise_sources"}
                    [] OTHER -> {"review_flagged_sources"})

\* the order in which the report lists its strings
ActionOrder ==
    <<"add_disclaimer", "remove_pro_claims", "add_not_applicable",
      "add_methodology", "add_sources", "raise_sources", "lower_sources",
      "review_flagged_sources", "add_scenarios", "fix_scenarios", "add_faq",
      "fix_faq", "add_comparison", "add_editor_note", "reduce_certainty",
      "remove_filler">>

PlaceOf(a) == CHOOSE k \in 1..Len(ActionOrder) : ActionOrder[k] = a

\* C16: suggested_actions holds a remediation string for every triggered
\* rule (rules of the risk score, missing sections, counts out of range),
\* no string without a triggered rule and none twice, in one fixed order.
C16_OneActionPerRule ==
    pc = "qc_done" =>
        LET m == qc_report.metrics
            acts == qc_report.suggested_actions
        IN  /\ \A r \in QcRules :
                  Triggered(r, m) => \E i \in 1..Len(acts) : acts[i] \in AnswersTo(r)
            /\ \A i \in 1..Len(acts) :
                  \E r \in QcRules : Triggered(r, m) /\ acts[i] \in AnswersTo(r)
            /\ \A i, j \in 1..Len(acts) : i < j => PlaceOf(acts[i]) < PlaceOf(acts[j])

----------------------------------------------------------------------------
(* utils/text_cleanup.py                                                   *)
(* A text is a sequence of characters.  "?" is the Arabic question mark,   *)
(* AR_COMMA the Arabic comma, ELLIPSIS the one-character ellipsis; every   *)
(* other token that is not "#", whitespace or punctuation is a word of     *)
(* Arabic letters, counted as one character.                               *)

AR_COMMA == "AR_COMMA"
ELLIPSIS == "ELLIPSIS"
QMARK == "?"

\* the characters of _PUNCT that occur in the model's texts
CL_PUNCT == {AR_COMMA, ",", ";", ":", "!", QMARK, DOT, "(", ")", "-"}
\* [!؟؛:،\.] of line 59, [!؟،؛…] of line 41, the rstrip set of line 100
SENTENCE_PUNCT == {"!", QMARK, ":", AR_COMMA, DOT}
REPEATABLE_PUNCT == {"!", QMARK, AR_COMMA, ELLIPSIS}
CUT_PUNCT == {AR_COMMA, ",", DOT, ":", "!", QMARK}

\* [؀-ۿ]: the Arabic letters, and the Arabic comma and question mark
InArabicRange(c) ==
    c \notin {HASH, SP, NL, DOT, ",", ";", ":", "!", "(", ")", "-", ELLIPSIS}

\* least offset >= p at which another character than c stands, else len(s)
RECURSIVE RunEnd(_, _, _)
RunEnd(s, p, c) == IF p < Len(s) /\ s[p + 1] = c THEN RunEnd(s, p + 1, c) ELSE p

\* re.sub of every run of at least n equal characters c of DOMAIN to by to[c]
RECURSIVE SubRuns(_, _, _, _)
SubRuns(s, p, n, to) ==
    IF p >= Len(s) THEN <<>>
    ELSE IF s[p + 1] \in DOMAIN to
    THEN Call(RunEnd(s, p, s[p + 1]), LAMBDA e :
            IF e - p >= n THEN to[s[p + 1]] \o SubRuns(s, e, n, to)
            ELSE <<s[p + 1]>> \o SubRuns(s, p + 1, n, to))
    ELSE <<s[p + 1]>> \o SubRuns(s, p + 1, n, to)

\* re.sub(r"\.{3,}", "…", text)
EllipsisText(text) == SubRuns(text, 0, 3, [c \in {DOT} |-> <<ELLIPSIS>>])

\* lines 41 and 43: runs of one repeated mark, then runs of dots, to one
CollapsePunctText(text) ==
    Call(SubRuns(text, 0, 2, [c \in REPEATABLE_PUNCT |-> <<c>>]), LAMBDA t :
        SubRuns(t, 0, 2, [c \in {DOT} |-> <<c>>]))

\* re.sub(r"([AR])\s*,\s*([AR])", r"\1، \2", text)
RECURSIVE CommaShapeFrom(_, _)
CommaShapeFrom(s, p) ==
    IF p >= Len(s) THEN <<>>
    ELSE IF InArabicRange(s[p + 1])
    THEN Call(WsEnd(s, p + 1), LAMBDA c :
         Call(IF c < Len(s) /\ s[c + 1] = "," THEN WsEnd(s, c + 1) ELSE Len(s),
              LAMBDA l :
            IF l < Len(s) /\ InArabicRange(s[l + 1])
            THEN <<s[p + 1], AR_COMMA, SP, s[l + 1]>> \o CommaShapeFrom(s, l + 1)
            ELSE <<s[p + 1]>> \o CommaShapeFrom(s, p + 1)))
    ELSE <<s[p + 1]>> \o CommaShapeFrom(s, p + 1)

\* re.sub(r"\s+(cs)", r"\1", text)
RECURSIVE NoSpaceBefore(_, _, _)
NoSpaceBefore(s, p, cs) ==
    IF p >= Len(s) THEN <<>>
    ELSE IF IsWs(s[p + 1])
    THEN Call(WsEnd(s, p), LAMBDA e :
            IF e < Len(s) /\ s[e + 1] \in cs
            THEN <<s[e + 1]>> \o NoSpaceBefore(s, e + 1, cs)
            ELSE <<s[p + 1]>> \o NoSpaceBefore(s, p + 1, cs))
    ELSE <<s[p + 1]>> \o NoSpaceBefore(s, p + 1, cs)

\* re.sub(r"([!؟؛:،\.])([^\s\n])", r"\1 \2", text)
RECURSIVE SpaceAfterFrom(_, _)
SpaceAfterFrom(s, p) ==
    IF p >= Len(s) THEN <<>>
    ELSE IF s[p + 1] \in SENTENCE_PUNCT /\ p + 1 < Len(s) /\ ~IsWs(s[p + 2])
    THEN <<s[p + 1], SP, s[p + 2]>> \o SpaceAfterFrom(s, p + 2)
    ELSE <<s[p + 1]>> \o SpaceAfterFrom(s, p + 1)

\* re.sub(r"\(\s+", "(", text)
RECURSIVE NoSpaceAfterOpen(_, _)
NoSpaceAfterOpen(s, p) ==
    IF p >= Len(s) THEN <<>>
    ELSE IF s[p + 1] = "(" THEN <<"(">> \o NoSpaceAfterOpen(s, WsEnd(s, p + 1))
    ELSE <<s[p + 1]>> \o NoSpaceAfterOpen(s, p + 1)

\* _fix_spacing_around_punct without its report
SpacingText(text) ==
    Call(NoSpaceBefore(text, 0, CL_PUNCT), LAMBDA t1 :
    Call(SpaceAfterFrom(t1, 0), LAMBDA t2 :
    Call(NoSpaceAfterOpen(t2, 0), LAMBDA t3 :
        NoSpaceBefore(t3, 0, {")"}))))

\* re.sub(r"[ \t]+\n", "\n", text)
RECURSIVE NoSpaceBeforeNewline(_, _)
NoSpaceBeforeNewline(s, p) ==
    IF p >= Len(s) THEN <<>>
    ELSE IF s[p + 1] = SP
    THEN Call(RunEnd(s, p, SP), LAMBDA e :
            IF e < Len(s) /\ s[e + 1] = NL
            THEN <<NL>> \o NoSpaceBeforeNewline(s, e + 1)
            ELSE <<SP>> \o NoSpaceBeforeNewline(s, p + 1))
    ELSE <<s[p + 1]>> \o NoSpaceBeforeNewline(s, p + 1)

\* _normalize_whitespace without its report
WhitespaceText(text) ==
    Call(SubRuns(text, 0, 2, [c \in {SP} |-> <<SP>>]), LAMBDA t1 :
    Call(SubRuns(t1, 0, 3, [c \in {NL} |-> <<NL, NL>>]), LAMBDA t2 :
    Call(NoSpaceBeforeNewline(t2, 0), LAMBDA t3 :
        Strip(t3) \o <<NL>>)))

\* the filler patterns whose phrases occur in the model's texts: an opening
\* "^<phrase> .*" and the closing "(<phrase>)[:,]?\s*$"
FILLER_OPENING == <<"mn", SP, "almaruf", SP, "an", SP>>
FILLER_CLOSING == <<"fy", SP, "alkhitam">>

EndsWith(s, q) == Len(s) >= Len(q) /\ SubSeq(s, Len(s) - Len(q) + 1, Len(s)) = q

\* any(re.search(pat, ln.strip()) for pat in QC_FILLER)
FillerHit(ln) ==
    Call(Strip(ln), LAMBDA t :
        \/ StartsWith(t, FILLER_OPENING)
        \/ EndsWith(t, FILLER_CLOSING)
        \/ EndsWith(t, FILLER_CLOSING \o <<":">>)
        \/ EndsWith(t, FILLER_CLOSING \o <<",">>))

\* str.rstrip(chars)
RStripChars(s, cs) ==
    LET keep == {i \in 1..Len(s) : s[i] \notin cs}
    IN  IF keep = {} THEN <<>> ELSE SubSeq(s, 1, MaxOf(keep))

FILLER_CUT == 50

\* the loop of lines 87-103: [kept, removed]
RECURSIVE FillerLoop(_, _)
FillerLoop(lines, aggressive) ==
    IF lines = <<>> THEN [kept |-> <<>>, removed |-> 0]
    ELSE Call(FillerLoop(Tail(lines), aggressive), LAMBDA rest :
         Call(lines[1], LAMBDA ln :
            IF FillerHit(ln) /\ ~StartsWith(LStrip(ln), <<HASH, HASH>>)
            THEN IF aggressive THEN [kept |-> rest.kept, removed |-> rest.removed + 1]
                 ELSE IF Len(ln) > FILLER_CUT
                 THEN [kept |-> <<RStripChars(Slice(CollapseSpaces(ln), 0, FILLER_CUT),
                                              CUT_PUNCT) \o <<ELLIPSIS>>>> \o rest.kept,
                       removed |-> rest.removed + 1]
                 ELSE [kept |-> <<ln>> \o rest.kept, removed |-> rest.removed]
            ELSE [kept |-> <<ln>> \o rest.kept, removed |-> rest.removed]))

\* _remove_filler_lines(text, report, aggressive): [text, removed]
_remove_filler_lines(text, aggressive) ==
    Call(FillerLoop(SplitLines(text), aggressive), LAMBDA r :
        [text |-> JoinLines(r.kept) \o (IF r.kept # <<>> THEN <<NL>> ELSE <<>>),
         removed |-> r.removed])

\* clean_article, with the text before and after the filler stage
clean_article(article_markdown, opts) ==
    Call(IF opts.fix_punct THEN EllipsisText(article_markdown) ELSE article_markdown,
         LAMBDA t1 :
    Call(IF opts.fix_punct THEN CollapsePunctText(t1) ELSE t1, LAMBDA t2 :
    Call(IF opts.fix_punct THEN CommaShapeFrom(t2, 0) ELSE t2, LAMBDA t3 :
    Call(IF opts.fix_punct THEN SpacingText(t3) ELSE t3, LAMBDA t4 :
    Call(IF opts.remove_filler THEN _remove_filler_lines(t4, opts.aggressive)
         ELSE [text |-> t4, removed |-> 0], LAMBDA f :
    Call(IF opts.normalize_ws THEN WhitespaceText(f.text) ELSE f.text, LAMBDA t6 :
        [cleaned |-> t6,
         pre_filler |-> t4,
         post_filler |-> f.text,
         report |-> [ellipsis_fixed |-> B2N(t1 # article_markdown),
                     repeated_punct_collapsed |-> B2N(t2 # t1),
                     arabic_comma_applied |-> B2N(t3 # t2),
                     spacing_fixed |-> B2N(t4 # t3),
                     whitespace_normalized |-> B2N(t6 # f.text),
                     filler_removed |-> f.removed]]))))))

MaxCleanLines == 2

\* a filler line of more than FILLER_CUT characters
LongWords == [i \in 1..FILLER_CUT |-> IF i % 2 = 1 THEN "w" ELSE SP]

\* lines of an article: headings of level 1 and 2 that end in a closing
\* phrase, a long one, short and long filler lines, punctuation to repair
CleanLineSet ==
    {<<HASH, SP>> \o FILLER_CLOSING,
     H2Line(FILLER_CLOSING),
     <<HASH, SP>> \o LongWords \o <<SP>> \o FILLER_CLOSING,
     FILLER_OPENING \o <<"w">>,
     FILLER_OPENING \o LongWords \o <<DOT>>,
     <<"w", SP, "!", "w", DOT, DOT, DOT>>,
     <<"w", SP, ",", "w", "!", "!", SP, SP, "(", SP, "w", SP, ")", SP>>,
     <<"-", SP, "w", DOT>>,
     <<>>}

CleanDocs == TextsOf(CleanLineSet, MaxCleanLines)

\* the defaults of clean_article's keyword arguments (lines 110-113)
CleanDefaults ==
    [remove_filler |-> TRUE, aggressive |-> FALSE, fix_punct |-> TRUE,
     normalize_ws |-> TRUE]

CleanOptionSets ==
    {CleanDefaults,
     [CleanDefaults EXCEPT !.aggressive = TRUE],
     [CleanDefaults EXCEPT !.fix_punct = FALSE, !.normalize_ws = FALSE],
     [CleanDefaults EXCEPT !.remove_filler = FALSE]}

ClInit ==
    /\ pc = "cl_in"
    /\ cl_doc \in CleanDocs
    /\ cl_opts \in CleanOptionSets
    /\ cl_pre = <<>> /\ cl_post = <<>> /\ cl_out = <<>>
    /\ GenIdle /\ StIdle /\ NhIdle /\ SdIdle /\ QcIdle /\ EfIdle /\ RestIdle

CleanArticle ==
    /\ pc = "cl_in"
    /\ pc' = "cl_done"
    /\ LET r == clean_article(cl_doc, cl_opts)
       IN  /\ cl_pre' = r.pre_filler
           /\ cl_post' = r.post_filler
           /\ cl_out' = [cleaned |-> r.cleaned, report |-> r.report]
    /\ UNCHANGED <<cl_doc, cl_opts>>
    /\ UNCHANGED notClVars

ClNext == CleanArticle

SpecClean == ClInit /\ [][ClNext]_vars

----------------------------------------------------------------------------
(* Properties of the analyzers on the empty document, and of the filler    *)
(* stage                                                                   *)

AllZero(counters) == \A k \in DOMAIN counters : counters[k] = 0

\* C17: on the empty document every analyzer returns zero-valued counters
\* and an empty list of actions or suggestions (an analyzer that raised
\* would return nothing).
C17_EmptyDocumentZero ==
    /\ (pc = "cl_done" /\ cl_doc = <<>>) => AllZero(cl_out.report)
    /\ (pc = "nh_once" /\ nh_doc = <<>>) => AllZero(nh_first.changes)
    /\ (pc = "qc_done" /\ qc_doc = <<>>) =>
           /\ qc_report.metrics.words = 0
           /\ qc_report.suggested_actions = <<>>
    /\ (pc = "sd_done" /\ sd_cur = <<>>) => sd_report.suggestions = <<>>

\* a line that begins with one to six "#" and a space
IsHeadingLine(ln) ==
    \E n \in 1..6 : StartsWith(ln, Hashes(n) \o <<SP>>)

HeadingLinesIn(text) == SelectSeq(SplitLines(text), IsHeadingLine)

\* a occurs in b as a subsequence
RECURSIVE IsSubsequence(_, _)
IsSubsequence(a, b) ==
    IF a = <<>> THEN TRUE
    ELSE IF b = <<>> THEN FALSE
    ELSE IF a[1] = b[1] THEN IsSubsequence(Tail(a), Tail(b))
    ELSE IsSubsequence(a, Tail(b))

\* C20: the filler stage removes no heading line, aggressive or not: the
\* heading lines of its input, of any level, are lines of its output,
\* verbatim and in the same order.
C20_FillerKeepsHeadings ==
    (pc = "cl_done" /\ cl_opts.remove_filler) =>
        IsSubsequence(HeadingLinesIn(cl_pre), SplitLines(cl_post))

----------------------------------------------------------------------------
(* utils/enhanced_fix.py                                                   *)
(*                                                                         *)
(* A text is a sequence of characters and atoms as before.  "CERTAIN"      *)
(* stands for a word of the first pattern of CERTAINTY_MAP and the two     *)
(* atoms "fy", "alghalib" for its replacement; the words of the section     *)
(* titles are atoms of their own; the texts of the model hold no link and  *)
(* no inline code, so every line takes the full CERTAINTY_MAP branch.      *)

SOFT_REPLACEMENT == <<"fy", SP, "alghalib">>

\* one line of soften_certainty_language: pat.subn on the line, the
\* lookarounds (?<!\S) and (?!\S) read on the line as it was
RECURSIVE SoftenLine(_, _)
SoftenLine(ln, p) ==
    IF p >= Len(ln) THEN [text |-> <<>>, n |-> 0]
    ELSE Call(SoftenLine(ln, p + 1), LAMBDA rest :
         IF /\ ln[p + 1] = "CERTAIN"
            /\ (p = 0 \/ IsWs(ln[p]))
            /\ (p + 1 = Len(ln) \/ IsWs(ln[p + 2]))
         THEN [text |-> SOFT_REPLACEMENT \o rest.text, n |-> rest.n + 1]
         ELSE [text |-> <<ln[p + 1]>> \o rest.text, n |-> rest.n])

\* the loop over text.splitlines(keepends=True) from offset p
RECURSIVE SoftenFrom(_, _)
SoftenFrom(s, p) ==
    IF p >= Len(s) THEN [text |-> <<>>, n |-> 0]
    ELSE Call(IF LineEnd(s, p) < Len(s) THEN LineEnd(s, p) + 1 ELSE Len(s),
              LAMBDA e :
         Call(Slice(s, p, e), LAMBDA ln :
         Call(IF StartsWith(LStrip(ln), <<HASH, HASH>>)
              THEN [text |-> ln, n |-> 0] ELSE SoftenLine(ln, 0), LAMBDA this :
         Call(SoftenFrom(s, e), LAMBDA rest :
            [text |-> this.text \o rest.text, n |-> this.n + rest.n]))))

\* soften_certainty_language(text): {text, replacements_count}
soften_certainty_language(text) ==
    Call(SoftenFrom(text, 0), LAMBDA r :
        [text |-> r.text, replacements_count |-> r.n])

\* the words of NOT_APPLICABLE_TITLE and of WHY_REGEX, the titles of
\* OUTRO_REGEX
NOT_APPLICABLE_WORDS == <<"mata", "la", "yantabiq", "altafsir">>
WHY_WORDS == <<"limadha", "qad", "yazhar", "alramz">>
OUTRO_TITLES == {<<"khatima">>, <<"alkhulasa">>}

\* the words joined by single spaces
RECURSIVE SpacedWords(_)
SpacedWords(words) ==
    IF Len(words) <= 1 THEN words
    ELSE <<words[1], SP>> \o SpacedWords(Tail(words))

NOT_APPLICABLE_TITLE == SpacedWords(NOT_APPLICABLE_WORDS) \o <<QMARK>>

\* DEFAULT_NOT_APPLICABLE_BLOCK.strip(): the heading and four bullet lines
NaBullet(w) == <<"-", SP, w, DOT>>
DEFAULT_NOT_APPLICABLE_BLOCK ==
    H2Line(NOT_APPLICABLE_TITLE) \o <<NL>> \o NaBullet("na1") \o <<NL>>
    \o NaBullet("na2") \o <<NL>> \o NaBullet("na3") \o <<NL>> \o NaBullet("na4")

\* least offset >= p of t at which no whitespace stands
RECURSIVE WsRunEnd(_, _)
WsRunEnd(t, p) == IF p < Len(t) /\ IsWs(t[p + 1]) THEN WsRunEnd(t, p + 1) ELSE p

\* re.fullmatch of  w1 \s+ w2 \s+ ... wn ؟?  on t[p:], k the next word
RECURSIVE WordsMatchFrom(_, _, _, _)
WordsMatchFrom(t, p, words, k) ==
    IF k > Len(words)
    THEN p = Len(t) \/ (p + 1 = Len(t) /\ t[p + 1] = QMARK)
    ELSE /\ p < Len(t)
         /\ t[p + 1] = words[k]
         /\ IF k = Len(words) THEN WordsMatchFrom(t, p + 1, words, k + 1)
            ELSE /\ WsRunEnd(t, p + 1) > p + 1
                 /\ WordsMatchFrom(t, WsRunEnd(t, p + 1), words, k + 1)

NotApplicableMatch(t) == WordsMatchFrom(t, 0, NOT_APPLICABLE_WORDS, 1)
WHY_REGEX(t) == WordsMatchFrom(t, 0, WHY_WORDS, 1)
OUTRO_REGEX(t) == t \in OUTRO_TITLES

\* index of the first section of secs that p accepts, 0 when there is none
FirstSection(secs, p(_)) ==
    LET hit == {i \in 1..Len(secs) : p(secs[i])}
    IN  IF hit = {} THEN 0 ELSE MinOf(hit)

\* the outro looked for before the "why" section
InsertPos_OutroFirst(article_md, secs) ==
    Call(FirstSection(secs, LAMBDA x : x.level = 2 /\ WHY_REGEX(x.title)),
         LAMBDA w :
    Call(FirstSection(secs, LAMBDA x : x.level = 2 /\ OUTRO_REGEX(x.title)),
         LAMBDA o :
        IF o # 0 THEN secs[o].start
        ELSE IF w # 0 THEN secs[w].end
        ELSE Len(article_md)))

\* insert_pos of ensure_not_applicable_section (lines 98-114)
InsertPos(article_md, secs) ==
    Call(FirstSection(secs, LAMBDA x : x.level = 2 /\ WHY_REGEX(x.title)),
         LAMBDA w :
    Call(FirstSection(secs, LAMBDA x : x.level = 2 /\ OUTRO_REGEX(x.title)),
         LAMBDA o :
        IF w # 0 THEN secs[w].end
        ELSE IF o # 0 THEN secs[o].start
        ELSE Len(article_md)))

\* the new text of lines 116-123
InsertBlockAt(article_md, insert_pos) ==
    Call(Slice(article_md, 0, insert_pos), LAMBDA head :
    Call(IF insert_pos > 0 /\ article_md[insert_pos] = NL THEN <<>> ELSE <<NL>>,
         LAMBDA prefix :
        head
        \o (IF EndsWith(head, <<NL, NL>>) THEN <<>> ELSE prefix \o <<NL>>)
        \o DEFAULT_NOT_APPLICABLE_BLOCK
        \o <<NL, NL>>
        \o Slice(article_md, insert_pos, Len(article_md))))

\* ensure_not_applicable_section(article_md): {text, inserted}
ensure_not_applicable_section(article_md) ==
    Call(list_sections(article_md), LAMBDA secs :
        IF FirstSection(secs,
               LAMBDA x : x.level = 2 /\ NotApplicableMatch(x.title)) # 0
        THEN [text |-> article_md, inserted |-> FALSE]
        ELSE [text |-> InsertBlockAt(article_md, InsertPos(article_md, secs)),
              inserted |-> TRUE])

\* steps 1-4 of run_enhanced_fix (lines 159-177): the text and the reports
\* before the outro is looked for
FixStages(article_md, clean_opts, heading_opts) ==
    Call(clean_article(article_md, clean_opts), LAMBDA cleaned :
    Call(normalize_headings(cleaned.cleaned, heading_opts), LAMBDA nh :
    Call(soften_certainty_language(nh.normalized), LAMBDA soft :
    Call(ensure_not_applicable_section(soft.text), LAMBDA ins :
        [text |-> ins.text,
         clean |-> cleaned.report,
         headings |-> nh.changes,
         soften |-> [replacements_count |-> soft.replacements_count],
         not_applicable_inserted |-> ins.inserted]))))

\* the title of the first section, of level 2 or 3, that is an outro; <<>>
\* when there is none (lines 180-185)
OutroTitle(text) ==
    Call(list_sections(text), LAMBDA secs :
    Call(FirstSection(secs, LAMBDA x : OUTRO_REGEX(x.title)), LAMBDA i :
        IF i = 0 THEN <<>> ELSE secs[i].title))

\* the returned record of run_enhanced_fix
FixResult(st, text, outro_done) ==
    [article |-> text,
     reports |-> [clean |-> st.clean,
                  headings |-> st.headings,
                  soften |-> st.soften,
                  not_applicable_inserted |-> st.not_applicable_inserted,
                  outro_regenerated |-> outro_done]]

\* step 5 with the failure of the capability let through: the failure
\* comes back in place of the article
OutroStep_Uncaught(st, o) ==
    Call(OutroTitle(st.text), LAMBDA outro_title :
        IF outro_title = <<>> THEN FixResult(st, st.text, FALSE)
        ELSE IF extract_section_text(st.text, outro_title) = <<>>
        THEN FixResult(st, st.text, TRUE)
        ELSE IF chat_complete(o) = Failure
        THEN FixResult(st, Failure, FALSE)
        ELSE FixResult(st,
                 regenerate_section(st.text, outro_title, chat_complete(o)),
                 TRUE))

\* step 5 of run_enhanced_fix (lines 180-200): regenerate_section returns
\* the text as it is when it finds no section text, raises what the
\* capability raises, else replaces the section; the exception is caught
OutroStep(st, o) ==
    Call(OutroTitle(st.text), LAMBDA outro_title :
        IF outro_title = <<>> THEN FixResult(st, st.text, FALSE)
        ELSE IF extract_section_text(st.text, outro_title) = <<>>
        THEN FixResult(st, st.text, TRUE)
        ELSE IF chat_complete(o) = Failure
        THEN FixResult(st, st.text, FALSE)
        ELSE FixResult(st,
                 regenerate_section(st.text, outro_title, chat_complete(o)),
                 TRUE))

\* run_enhanced_fix(article_md, clean_opts=..., heading_opts=...) when the
\* capability does o
run_enhanced_fix(article_md, clean_opts, heading_opts, o) ==
    Call(FixStages(article_md, clean_opts, heading_opts), LAMBDA st :
        OutroStep(st, o))

----------------------------------------------------------------------------
(* The enhanced-fix tools applied to a document, again and again           *)

MaxFixLines == 2
MaxFixSteps == 2

\* lines of a document: an opening heading, a text line with a certainty
\* word, the "why" heading, an outro heading
FixLineSet ==
    {H2Line(<<"w">>), <<"CERTAIN", SP, "w">>,
     H2Line(SpacedWords(WHY_WORDS) \o <<QMARK>>), H2Line(<<"khatima">>)}

FixDocs == TextsOf(FixLineSet, MaxFixLines)

\* heading_opts: the defaults of run_enhanced_fix (lines 153-157), and
\* with autonumber
FixHeadingOptions == {NhDefaults, [NhDefaults EXCEPT !.autonumber = TRUE]}

\* what the capability answers when asked for the outro
FixAnswers == {H2Line(<<"khatima">>) \o <<NL, "w">>}

\* whether step 5 asks the capability and, when it does, whether the
\* capability fails
CapabilityUse(st, o) ==
    Call(OutroTitle(st.text), LAMBDA outro_title :
        IF outro_title = <<>> \/ extract_section_text(st.text, outro_title) = <<>>
        THEN "not_asked"
        ELSE IF chat_complete(o) = Failure THEN "failed"
        ELSE "answered")

EfInit ==
    /\ pc = "ef_in"
    /\ ef_text \in FixDocs
    /\ ef_hopts \in FixHeadingOptions
    /\ ef_prev = <<>>
    /\ ef_steps = 0 /\ ef_inserted = 0
    /\ ef_stages = <<>> /\ ef_outcome = "" /\ ef_res = <<>>
    /\ GenIdle /\ StIdle /\ NhIdle /\ SdIdle /\ QcIdle /\ ClIdle /\ RestIdle

\* a caller applies ensure_not_applicable_section to the document
ApplyEnsure ==
    /\ pc \in {"ef_in", "ef_ensured", "ef_fixed"}
    /\ ef_steps < MaxFixSteps
    /\ LET ins == ensure_not_applicable_section(ef_text)
       IN  /\ ef_text' = ins.text
           /\ ef_inserted' = ef_inserted + B2N(ins.inserted)
    /\ ef_prev' = ef_text
    /\ ef_steps' = ef_steps + 1
    /\ pc' = "ef_ensured"
    /\ UNCHANGED <<ef_hopts, ef_stages, ef_outcome, ef_res>>
    /\ UNCHANGED notEfVars

\* a caller applies run_enhanced_fix, with the default clean_opts, to the
\* document; the capability does o when it is asked
ApplyFix ==
    /\ pc \in {"ef_in", "ef_ensured", "ef_fixed"}
    /\ ef_steps < MaxFixSteps
    /\ ef_stages' = FixStages(ef_text, CleanDefaults, ef_hopts)
    /\ \E o \in Outcomes(FixAnswers) :
          /\ ef_outcome' = CapabilityUse(ef_stages', o)
          /\ ef_res' = OutroStep(ef_stages', o)
          /\ ef_text' = ef_res'.article
          /\ ef_inserted' =
                 ef_inserted + B2N(ef_res'.reports.not_applicable_inserted)
    /\ ef_prev' = ef_text
    /\ ef_steps' = ef_steps + 1
    /\ pc' = "ef_fixed"
    /\ UNCHANGED ef_hopts
    /\ UNCHANGED notEfVars

EfNext == ApplyEnsure \/ ApplyFix

SpecFix == EfInit /\ [][EfNext]_vars

\* generate_article and the enhanced-fix tools, each from its own start
OptionalInit == Init \/ EfInit
OptionalNext == Next \/ EfNext
SpecOptional == OptionalInit /\ [][OptionalNext]_vars

----------------------------------------------------------------------------
(* Properties of the enhanced-fix tools                                    *)

\* C18: over any sequence of ensure_not_applicable_section and
\* run_enhanced_fix applications to a document, with any heading options,
\* the canned block is inserted at most once.
C18_InsertedAtMostOnce ==
    pc \in {"ef_ensured", "ef_fixed"} => ef_inserted <= 1

\* C19: a failure of an optional step does not reach the caller.  When the
\* source catalog step of generate_article raises, the article is the one
\* that entered the step and it is what generate_article returns; when the
\* capability fails in the outro step of run_enhanced_fix, the returned
\* article is the text of step 4, outro_regenerated is false and the other
\* reports are those of the stages.
C19_OptionalFailureContained ==
    /\ (pc = "return" /\ src_outcome = "exception") => article = post_mid
    /\ (pc = "done" /\ src_outcome = "exception") => result = post_mid
    /\ (pc = "ef_fixed" /\ ef_outcome = "failed") =>
           /\ ef_res.article = ef_stages.text
           /\ ef_text = ef_stages.text
           /\ ef_res.reports =
                  [clean |-> ef_stages.clean,
                   headings |-> ef_stages.headings,
                   soften |-> ef_stages.soften,
                   not_applicable_inserted |-> ef_stages.not_applicable_inserted,
                   outro_regenerated |-> FALSE]

\* a run of run_enhanced_fix in which the stages changed the document, the
\* outro was found and the capability failed
C19_Witness ==
    /\ pc = "ef_fixed" /\ ef_outcome = "failed"
    /\ ef_stages.not_applicable_inserted
    /\ ef_stages.soften.replacements_count > 0
    /\ OutroTitle(ef_stages.text) # <<>>
    /\ ef_res.article = ef_stages.text

----------------------------------------------------------------------------
(* Autonumbering an autonumbered document                                  *)

\* C21: with autonumber, a numeric prefix already in front of a title is
\* stripped before the new number is written, so autonumbering an
\* autonumbered document yields the same heading lines.
C21_AutonumberKeepsHeadings ==
    (pc = "nh_twice" /\ nh_opts.autonumber) =>
        HeadingLinesOf(SplitLines(nh_second.normalized))
            = HeadingLinesOf(SplitLines(nh_first.normalized))

----------------------------------------------------------------------------
(* ensure_not_applicable_section applied to documents with subsections     *)

MaxEnsureLines == 3

\* lines of a document: an opening heading, the "why" heading, a level-3
\* heading, an outro heading, the section's own heading without its
\* question mark, a text line
EnsureLineSet ==
    {H2Line(<<"w">>), H2Line(SpacedWords(WHY_WORDS) \o <<QMARK>>),
     H3Line(<<"k">>), H2Line(<<"khatima">>),
     H2Line(SpacedWords(NOT_APPLICABLE_WORDS)), <<"w">>}

EnsureDocs == TextsOf(EnsureLineSet, MaxEnsureLines)

EnsInit ==
    /\ pc = "ef_in"
    /\ ef_text \in EnsureDocs
    /\ ef_hopts = NhDefaults
    /\ ef_prev = <<>>
    /\ ef_steps = 0 /\ ef_inserted = 0
    /\ ef_stages = <<>> /\ ef_outcome = "" /\ ef_res = <<>>
    /\ GenIdle /\ StIdle /\ NhIdle /\ SdIdle /\ QcIdle /\ ClIdle /\ RestIdle

EnsNext == ApplyEnsure

SpecEnsure == EnsInit /\ [][EnsNext]_vars

\* the level-2 sections of a document
Level2(secs) == SelectSeq(secs, LAMBDA x : x.level = 2)

\* where the claim puts the block: after the first "why" section of level
\* 2, else before the first outro section of level 2, else at the end
PlaceOfBlock(doc) ==
    LET h2 == Level2(list_sections(doc))
        why == {i \in 1..Len(h2) : WHY_REGEX(h2[i].title)}
        out == {i \in 1..Len(h2) : OUTRO_REGEX(h2[i].title)}
    IN  IF why # {} THEN h2[MinOf(why)].end
        ELSE IF out # {} THEN h2[MinOf(out)].start
        ELSE Len(doc)

\* text is doc with the block put in at offset pos, behind newlines only
BlockPutAt(doc, text, pos) ==
    \E sep \in {<<>>, <<NL>>, <<NL, NL>>} :
        text = Slice(doc, 0, pos) \o sep \o DEFAULT_NOT_APPLICABLE_BLOCK
               \o <<NL, NL>> \o Slice(doc, pos, Len(doc))

HasNotApplicable(doc) ==
    \E i \in 1..Len(list_sections(doc)) :
        /\ list_sections(doc)[i].level = 2
        /\ NotApplicableMatch(list_sections(doc)[i].title)

\* C22: when the section is absent the block goes right after the "why"
\* section if that level-2 section is there, else right before the first
\* outro section of level 2, else to the end of the document; a document
\* that has the section is left as it is.
C22_BlockPlacement ==
    pc = "ef_ensured" =>
        IF HasNotApplicable(ef_prev) THEN ef_text = ef_prev
        ELSE BlockPutAt(ef_prev, ef_text, PlaceOfBlock(ef_prev))

\* the document has an outro section and, behind it, the "why" section as
\* its last section: the block went behind the "why" section
C22_Witness ==
    /\ pc = "ef_ensured" /\ ef_steps = 1 /\ ef_inserted = 1
    /\ \E i, j \in 1..Len(list_sections(ef_prev)) :
          /\ i < j
          /\ OUTRO_REGEX(list_sections(ef_prev)[i].title)
          /\ WHY_REGEX(list_sections(ef_prev)[j].title)
          /\ list_sections(ef_prev)[j].level = 2
    /\ PlaceOfBlock(ef_prev) = Len(ef_prev)

\* the (title, title of the level-2 heading above it) pairs of the level-3
\* sections of secs, parent the parent of the first of them
RECURSIVE ParentsFrom(_, _)
ParentsFrom(secs, parent) ==
    IF secs = <<>> THEN <<>>
    ELSE IF secs[1].level = 2 THEN ParentsFrom(Tail(secs), secs[1].title)
    ELSE <<<<secs[1].title, parent>>>> \o ParentsFrom(Tail(secs), parent)

\* C28: the block is put in at a boundary between level-2 sections only:
\* every level-3 subsection has the level-2 parent after the insertion
\* that it had before.
C28_SubsectionsKeepParent ==
    pc = "ef_ensured" =>
        ParentsFrom(list_sections(ef_text), <<>>)
            = ParentsFrom(list_sections(ef_prev), <<>>)

----------------------------------------------------------------------------
(* utils/sources_loader.py: pick_sources_for_article                       *)
(*                                                                         *)
(* A catalog is a sequence of entries (dicts) with a title and a type; the *)
(* returned list is kept as the sequence of catalog positions it holds.    *)
(* random.shuffle can leave a list in any order.                           *)

MaxCatalog == 6
WANT_COUNT == 5

MinNat(a, b) == IF a <= b THEN a ELSE b

\* the catalog of k classical, l modern and o other entries; with dup the
\* entries come in pairs of one title (equal dicts when of one type)
CatalogOf(k, l, o, dup) ==
    [i \in 1..(k + l + o) |->
        [title |-> IF dup THEN (i + 1) \div 2 ELSE i,
         type  |-> IF i <= k THEN "classical"
                   ELSE IF i <= k + l THEN "modern" ELSE "other"]]

Catalogs ==
    {CatalogOf(c[1], c[2], c[3], c[4]) :
        c \in {x \in (0..MaxCatalog) \X (0..MaxCatalog) \X (0..MaxCatalog) \X BOOLEAN :
                  x[1] + x[2] + x[3] <= MaxCatalog}}

\* the positions of the entries of type t (lines 41-42)
OfType(all_sources, t) ==
    {i \in 1..Len(all_sources) : all_sources[i].type = t}

\* the sequences of n different members of S
Arrangements(S, n) ==
    {f \in [1..n -> S] : \A i, j \in 1..n : i # j => f[i] # f[j]}

\* random.shuffle(xs) and then xs[:min(2, len(xs))]: any two, in any order
ShuffledHead(S) == Arrangements(S, MinNat(2, Cardinality(S)))

\* every entry in the pool, the selected ones as well
PoolOf_All(all_sources, selected) == 1..Len(all_sources)

\* pool = [s for s in all_sources if s not in selected] (line 52): the
\* entries that equal no selected entry
PoolOf(all_sources, selected) ==
    {i \in 1..Len(all_sources) :
        \A j \in 1..Len(selected) : all_sources[i] # all_sources[selected[j]]}

\* the number of pops of the loop of lines 54-55
Pops(all_sources, selected, pool, want_count) ==
    LET need == MinNat(want_count, Len(all_sources)) - Len(selected)
    IN  IF need <= 0 THEN 0 ELSE MinNat(need, Cardinality(pool))

\* selected after lines 44-49
Mixed(all_sources, mix_classical_modern) ==
    IF mix_classical_modern
    THEN {cs \o ms : cs \in ShuffledHead(OfType(all_sources, "classical")),
                     ms \in ShuffledHead(OfType(all_sources, "modern"))}
    ELSE {<<>>}

\* pick_sources_for_article(all_sources=, want_count=, mix_classical_modern=):
\* the lists it can return
pick_sources_for_article(all_sources, want_count, mix_classical_modern) ==
    IF all_sources = <<>> THEN {<<>>}
    ELSE UNION {
           LET pool == PoolOf(all_sources, selected)
           IN  {SubSeq(selected \o popped, 1,
                       MinNat(want_count, Len(selected) + Len(popped))) :
                    popped \in Arrangements(pool,
                        Pops(all_sources, selected, pool, want_count))} :
           selected \in Mixed(all_sources, mix_classical_modern)}

PsInit ==
    /\ pc = "ps_in"
    /\ ps_catalog \in Catalogs
    /\ ps_picked = <<>>
    /\ GenIdle /\ StIdle /\ NhIdle /\ SdIdle /\ QcIdle /\ ClIdle /\ EfIdle
    /\ CtIdle

\* generate_article picks the sources of an article (lines 499-502)
PickSources ==
    /\ pc = "ps_in"
    /\ ps_picked' \in pick_sources_for_article(ps_catalog, WANT_COUNT, TRUE)
    /\ pc' = "ps_done"
    /\ UNCHANGED ps_catalog
    /\ UNCHANGED notPsVars

PsNext == PickSources

SpecSources == PsInit /\ [][PsNext]_vars

\* number of picked entries of type t
PickedOfType(t) ==
    Cardinality({j \in 1..Len(ps_picked) : ps_catalog[ps_picked[j]].type = t})

DistinctEntries(all_sources) ==
    \A i, j \in 1..Len(all_sources) : i # j => all_sources[i] # all_sources[j]

\* C23: with want_count = 5 and mixing, whatever the shuffles do, the
\* returned list holds at least min(2, classical entries) classical and
\* min(2, modern entries) modern sources, holds no catalog entry twice, and
\* has min(5, catalog size) entries when the catalog's entries are distinct.
C23_PickedSources ==
    pc = "ps_done" =>
        /\ PickedOfType("classical")
               >= MinNat(2, Cardinality(OfType(ps_catalog, "classical")))
        /\ PickedOfType("modern")
               >= MinNat(2, Cardinality(OfType(ps_catalog, "modern")))
        /\ \A i, j \in 1..Len(ps_picked) : i # j => ps_picked[i] # ps_picked[j]
        /\ DistinctEntries(ps_catalog) =>
               Len(ps_picked) = MinNat(WANT_COUNT, Len(ps_catalog))

\* five picked out of a catalog of six distinct entries, three classical
\* and three modern
C23_Witness ==
    /\ pc = "ps_done"
    /\ Len(ps_catalog) = 6 /\ DistinctEntries(ps_catalog)
    /\ Cardinality(OfType(ps_catalog, "classical")) = 3
    /\ Cardinality(OfType(ps_catalog, "modern")) = 3
    /\ Len(ps_picked) = 5


\* ---------------------------------------------------------------------
\* utils/section_weights.py: word budget of the H2 sections
\* ---------------------------------------------------------------------

\* largest total_words of the checked calls, in hundreds of words
MaxHundreds == 17

\* the section keys, in the order of the list (lines 13-25)
H2_KEYS ==
    <<"khulasa_saria", "limatha_yadhhar", "mata_la_yantabiq", "scenarios",
      "hasab_halat_alrai", "aqwal_almufassirin", "asila_shaia", "muqarana",
      "manhajiya", "masadir_sariha", "khatima_masula">>

KeyIndex(k) == CHOOSE i \in 1..Len(H2_KEYS) : H2_KEYS[i] = k

WeightsOf(ws) == [k \in {H2_KEYS[i] : i \in 1..Len(H2_KEYS)} |-> ws[KeyIndex(k)]]

\* the weights of lines 31-74, in hundredths
PROFILES ==
    [modern_balanced |-> WeightsOf(<<5, 10, 7, 13, 20, 12, 8, 8, 7, 3, 7>>),
     modern_slim     |-> WeightsOf(<<6, 12, 8, 16, 12, 8, 10, 10, 8, 4, 6>>),
     modern_deep     |-> WeightsOf(<<5, 14, 9, 20, 18, 10, 6, 8, 6, 2, 2>>)]

\* an unknown or empty name selects modern_balanced (lines 77-78)
get_profile(name) ==
    IF name \in DOMAIN PROFILES THEN PROFILES[name]
    ELSE PROFILES["modern_balanced"]

clamp(x, lo, hi) == IF x < lo THEN lo ELSE IF x > hi THEN hi ELSE x

AbsInt(x) == IF x < 0 THEN 0 - x ELSE x

\* round(n / d) of Python 3 for n >= 0 and d > 0: a half goes to the even
\* neighbour.  The code divides floating-point numbers, whose error decides
\* an exact half either way; the totals of CtInit are multiples of 100, for
\* which every quotient is whole.
RoundDiv(n, d) ==
    LET q == n \div d
        r == n % d
    IN  IF 2 * r < d THEN q
        ELSE IF 2 * r > d THEN q + 1
        ELSE IF q % 2 = 0 THEN q ELSE q + 1

RECURSIVE SumWeights(_, _)
SumWeights(profile, i) ==
    IF i > Len(H2_KEYS) THEN 0
    ELSE profile[H2_KEYS[i]] + SumWeights(profile, i + 1)

\* lines 96-104: the target of one key before the balancing
FirstTarget(total_words, profile, weight_sum, key) ==
    LET w     == clamp(profile[key], 0, 50)
        words == RoundDiv(total_words * w, weight_sum)
        kept  == IF key \in {"masadir_sariha", "khatima_masula"} /\ words < 50
                 THEN 50 ELSE words
    IN  IF kept < 80 THEN 80 ELSE kept

FirstTargets(total_words, profile) ==
    [k \in DOMAIN profile |->
        FirstTarget(total_words, profile, SumWeights(profile, 1), k)]

RECURSIVE SumTargets(_, _)
SumTargets(targets, i) ==
    IF i > Len(H2_KEYS) THEN 0
    ELSE targets[H2_KEYS[i]] + SumTargets(targets, i + 1)

\* sorted(H2_KEYS, key = weight, reverse = ...): a stable sort, equal
\* weights keep the order of H2_KEYS in both directions (line 111)
RECURSIVE SortedKeys(_, _, _)
SortedKeys(profile, reverse, left) ==
    IF left = {} THEN <<>>
    ELSE LET first == CHOOSE k \in left :
                 \A o \in left \ {k} :
                     \/ IF reverse THEN profile[k] > profile[o]
                                   ELSE profile[k] < profile[o]
                     \/ profile[k] = profile[o] /\ KeyIndex(k) < KeyIndex(o)
         IN  <<first>> \o SortedKeys(profile, reverse, left \ {first})

\* line 115
Bump(diff) == IF AbsInt(diff) >= 10 THEN 10 ELSE diff

\* lines 112-117
RECURSIVE Balance(_, _, _)
Balance(targets, diff, order) ==
    IF order = <<>> \/ diff = 0 THEN targets
    ELSE LET k      == Head(order)
             bump   == Bump(diff)
             bumped == targets[k] + bump
         IN  Balance([targets EXCEPT ![k] = IF bumped < 60 THEN 60 ELSE bumped],
                     diff - bump, Tail(order))

BalanceFrom(first, total_words, profile) ==
    Call(total_words - SumTargets(first, 1),
         LAMBDA diff :
             IF diff = 0 THEN first
             ELSE Balance(first, diff,
                          SortedKeys(profile, diff > 0, DOMAIN profile)))

compute_targets(total_words, profile_name) ==
    Call(get_profile(profile_name),
         LAMBDA profile :
             BalanceFrom(FirstTargets(total_words, profile), total_words,
                         profile))

\* the maxima of LENGTH_TARGETS (utils/openai_client.py, lines 50-54)
LENGTH_MAXIMA == {800, 1200, 1600}

ProfileNames == {"modern_balanced", "modern_slim", "modern_deep", "other"}

CtInit ==
    /\ pc = "ct_in"
    /\ ct_total \in {100 * h : h \in 0..MaxHundreds}
    /\ ct_profile \in ProfileNames
    /\ ct_accum = 0
    /\ ct_targets = <<>>
    /\ GenIdle /\ StIdle /\ NhIdle /\ SdIdle /\ QcIdle /\ ClIdle /\ EfIdle
    /\ PsIdle

\* build_article_prompt asks for the budget of the preset's maximum
\* (lines 177-181); ct_accum keeps the sum before the balancing (line 105)
ComputeTargets ==
    /\ pc = "ct_in"
    /\ ct_accum' = SumTargets(FirstTargets(ct_total, get_profile(ct_profile)), 1)
    /\ ct_targets' = compute_targets(ct_total, ct_profile)
    /\ pc' = "ct_done"
    /\ UNCHANGED <<ct_total, ct_profile>>
    /\ UNCHANGED notCtVars

CtNext == ComputeTargets

SpecTargets == CtInit /\ [][CtNext]_vars

\* C24: for each preset maximum and each profile, the balancing never moves
\* the sum of the targets further from total_words than the sum was before
\* it.
C24_BalancingApproaches ==
    (pc = "ct_done" /\ ct_total \in LENGTH_MAXIMA) =>
        AbsInt(ct_total - SumTargets(ct_targets, 1))
            <= AbsInt(ct_total - ct_accum)


\* what the report of a non-empty corpus says about the closest document
\* and the vocabulary
MaxSimilarity == sd_report.top_similar[1].similarity

TypeTokenRatio == sd_report.style_metrics.type_token_ratio

\* C25: 3 points for a maximum similarity >= 0.35, 2 for >= 0.25, 1 for
\* >= 0.18, one more for a type-token ratio < 0.25; 4 points and more are
\* high, 2 and more medium.  So the level is high exactly when the maximum
\* similarity is >= 0.35 and the ratio < 0.25, and a maximum similarity
\* >= 0.35 alone gives medium.
C25_StyleRiskLevel ==
    (pc = "sd_done" /\ sd_report.corpus_size > 0) =>
        LET simPoints == IF MaxSimilarity >= 3500 THEN 3
                         ELSE IF MaxSimilarity >= 2500 THEN 2
                         ELSE IF MaxSimilarity >= 1800 THEN 1 ELSE 0
            points    == simPoints + (IF TypeTokenRatio < 2500 THEN 1 ELSE 0)
        IN  /\ sd_report.risk_level =
                   (IF points >= 4 THEN "high"
                    ELSE IF points >= 2 THEN "medium" ELSE "low")
            /\ sd_report.risk_level = "high"
                   <=> (MaxSimilarity >= 3500 /\ TypeTokenRatio < 2500)
            /\ (MaxSimilarity >= 3500 /\ TypeTokenRatio >= 2500)
                   => sd_report.risk_level = "medium"

\* an article of one repeated word whose only 3-gram stands in a corpus
\* document: similarity 1.0, ratio 0.2, level high
C25_Witness ==
    /\ pc = "sd_done"
    /\ sd_report.corpus_size > 0
    /\ MaxSimilarity >= 3500
    /\ TypeTokenRatio < 2500
    /\ sd_report.risk_level = "high"


\* C26: a document without an outro section has its disclaimer counted as
\* missing and a required section missing, a score of at least 5 and the
\* risk level high, whatever else it holds.
C26_NoOutroIsHighRisk ==
    (pc = "qc_done" /\ ~_analyze_structure(qc_doc)["outro"].present) =>
        /\ ~qc_report.metrics.disclaimer_present
        /\ "outro" \in RangeOf(qc_report.metrics.missing_sections)
        /\ RiskScore(qc_report.metrics,
                     "sources" \notin RangeOf(qc_report.metrics.missing_sections)) >= 5
        /\ qc_report.risk_level = "high"

\* a document that holds the disclaimer and every section but the outro,
\* with all counts in range, and is reported as of high risk
C26_Witness ==
    /\ pc = "qc_done"
    /\ "DISCLAIMER" \in RangeOf(qc_doc)
    /\ RangeOf(qc_report.metrics.missing_sections) = {"outro"}
    /\ qc_report.metrics.range_warnings = <<>>
    /\ ~qc_report.metrics.forbidden_claims
    /\ qc_report.metrics.certainty_hits = 0
    /\ qc_report.metrics.filler_hits = 0
    /\ qc_report.risk_level = "high"


\* C27: an expansion never replaces the article with a shorter one: after an
\* expansion call the article has at least the words of the text it was
\* asked to expand.
C27_ExpansionNeverShortens ==
    (/\ pc \in {"expand2", "post"}
     /\ calls # <<>>
     /\ calls[Len(calls)] = "expand")
    => _word_count(article) >= _word_count(prev_article)


\* ---------------------------------------------------------------------
\* the article of generate_article as run_quality_report reads it
\* ---------------------------------------------------------------------

\* the words of the titles the post-processing writes (openai_client.py,
\* lines 357-388) and of the other titles of the answers, transliterated
WordsOfTitle(atom) ==
    CASE atom = "EDITOR_NOTE" -> <<"taliq", "almuharrir">>
      [] atom = "OUTRO"       -> <<"khatima", "masula", "+", "tanwih", "mihani">>
      [] atom = "SOURCES"     -> <<"masadir", "sariha">>
      [] atom = "OPINIONS"    -> <<"aqwal", "almufassirin">>
      [] atom = "FAQ"         -> <<"asila", "shaia">>
      [] atom = "COMPARISON"  -> <<"muqarana", "daqiqa">>
      [] OTHER                -> <<atom>>

\* the words of the patterns of SEC_TITLES (quality_checks.py, lines 44-55),
\* which stand after "^##\s*" and are separated by "\s+"
SEC_PATTERNS ==
    [intro          |-> <<"iftitahiya">>,
     why            |-> <<"limatha", "qad", "yadhhar", "alramz">>,
     not_applicable |-> <<"mata", "la", "yantabiq", "altafsir">>,
     scenarios      |-> <<"scenariohat", "waqiiya">>,
     faq            |-> <<"asila", "shaia">>,
     comparison     |-> <<"muqarana", "daqiqa">>,
     methodology    |-> <<"manhajiya", "altafsir">>,
     sources        |-> <<"masadir", "sariha">>,
     editor_note    |-> <<"taliq", "muharrir">>,
     outro          |-> <<"khatima">>]

\* re.search of a pattern on a heading line with these title words: the
\* title begins with the pattern's words
PatternMatches(words, pattern) ==
    /\ Len(words) >= Len(pattern)
    /\ \A i \in 1..Len(pattern) : words[i] = pattern[i]

\* the atom under which the analyzer's model knows a title: the key whose
\* pattern matches it, the title itself when none does
KeyOfTitle(atom) ==
    LET keys == {k \in SEC_TITLES : PatternMatches(WordsOfTitle(atom), SEC_PATTERNS[k])}
    IN  IF keys = {} THEN atom ELSE CHOOSE k \in keys : TRUE

\* the same text with every title spelled as the analyzer's model spells it
AsAnalyzed(text) == [i \in 1..Len(text) |-> KeyOfTitle(text[i])]

\* C29: for every article generate_article returns, run_quality_report
\* finds the editor's-note section: it is not in missing_sections and no
\* action asks to add it.
C29_EditorNoteRecognised ==
    (pc = "done" /\ result # NoResult) =>
        Call(run_quality_report(AsAnalyzed(result)), LAMBDA report :
            /\ "editor_note" \notin RangeOf(report.metrics.missing_sections)
            /\ "add_editor_note" \notin RangeOf(report.suggested_actions))


TitlesOf(secs) == [i \in 1..Len(secs) |-> secs[i].title]

\* C30: with fix_punct enabled clean_article merges no heading line with
\* the line that follows it: the H2/H3 titles of the cleaned text, as
\* list_sections gives them, are those of the input, in the same order.
\* The filler stage is left out here (remove_filler = False), so that a
\* difference is the work of the punctuation and white-space stages.
C30_PunctKeepsTitles ==
    (pc = "cl_done" /\ cl_opts.fix_punct /\ ~cl_opts.remove_filler) =>
        TitlesOf(list_sections(cl_out.cleaned)) = TitlesOf(list_sections(cl_doc))

====
